---- MODULE Spec2Model ----
(***************************************************************************)
(* dutctl: the concurrent run engine of host/lib/dut.py and                *)
(* src/dutctl/dutctl.py.  Tasks of the asyncio loop are modelled by a      *)
(* program counter each; a step of a task is the code between two of its   *)
(* suspension points (await).  The OS-signal handler `term` and the exit   *)
(* of a supervised process are steps of the environment.                   *)
(***************************************************************************)
EXTENDS Integers, Sequences, FiniteSets, TLC

VARIABLES
    end_event,      \* dutctl.end_event: the global asyncio.Event
    tasks,          \* main: keys of the `tasks` dict, in creation order
    sig,            \* async_subproc parameter `sig` of each supervisor
    mask_return,    \* async_subproc parameter `mask_return` of each supervisor
    pcS,            \* position of each async_subproc coroutine
    proc,           \* the supervised process: "none", "running", "exited"
    returncode,     \* p.returncode: None or <<code>>
    sent,           \* signals delivered to the process by the supervisor
    result,         \* value returned by each finished task: None or <<code>>
    pcMain,         \* position of main
    mainResult,     \* value returned by main: None or <<code>>
    instr_cfg,      \* main: the loaded configuration besides supplies and siggens (its ganged flag)
    chip,           \* the chip whose serial pipeline the pipeline variables below describe
    peer,           \* the serial pipeline of the other chip (main, lines 241-249), if any
    ganged,         \* main: psus_ganged, the `ganged` argument of power_off and power_reset_cycle
    args,           \* main: the parsed command line (action, noreconf, noreset, times)
    siggen_cfgs,    \* main: instr_cfg['siggens']
    pcC,            \* position of handle_uart
    pcR,            \* position of uart_handle_serial
    dut_lines,      \* the lines the DUT may emit on the serial link in this run
    dut_count,      \* how many control lines the DUT emits at most in this run
    pushed,         \* every line put on line_queue so far, in put order
    line_queue,     \* asyncio.Queue items (indices into pushed)
    unfinished,     \* asyncio.Queue._unfinished_tasks
    pcP,            \* position of uart_handle_control_lines
    cur,            \* the line in processing: its index, groups and pending record
    exc,            \* the exception that ended uart_handle_control_lines, or None
    psu_configs,    \* the run's instrument configuration (instr_cfg['supplies'])
    sink,           \* contents of the measurement file, line by line
    cmds,           \* commands and queries sent to the instruments, in order
    errs,           \* 'ERROR: ...' lines printed by the control-line processor
    trace           \* order in which control lines were started and finished

supVars  == <<sig, mask_return, pcS, proc, returncode, sent>>
mainVars == <<tasks, pcMain, mainResult, instr_cfg, chip, peer, ganged, args, siggen_cfgs>>
qVars    == <<pushed, line_queue, unfinished>>
procVars == <<pcP, cur, exc, psu_configs, sink, cmds, errs, trace>>
uartVars == <<pcC, pcR, dut_lines, dut_count, qVars, procVars>>
vars     == <<end_event, supVars, result, mainVars, uartVars>>

----------------------------------------------------------------------------
(* Bounds of the model.                                                    *)
MaxLines == 2       \* control lines put on the queue in a run of the serial pipeline
MaxRunLines == 1    \* control lines put on the queue in a run with supervisors

----------------------------------------------------------------------------
(* Python's None and an optional value.                                    *)
None == <<>>
Some(v) == <<v>>

(* The async_subproc calls: handle_ocd, handle_gdb, and a call with        *)
(* arguments of the caller's choice.                                       *)
Supervisors == {"ocd", "gdb", "sub"}

(* Exit codes a process may end with when it ends by itself.               *)
OwnExitCodes == {0, 1}

(* subprocess: a child killed by signal N has returncode -N.               *)
KilledBy(s) == IF s = "SIGKILL" THEN 0 - 9 ELSE 0 - 15

(* Process.terminate() sends SIGTERM.                                      *)
StopSignal(s) == IF s = None THEN "SIGTERM" ELSE s[1]

(* Exit codes a process can end with once `signals` were delivered to it:  *)
(* SIGKILL cannot be caught; SIGTERM kills it or is handled by it.         *)
ExitCodesAfter(signals) ==
    IF signals = <<>> THEN OwnExitCodes
    ELSE IF signals[1] = "SIGKILL" THEN {KilledBy("SIGKILL")}
    ELSE {KilledBy("SIGTERM")} \cup OwnExitCodes

----------------------------------------------------------------------------
(* A set() that toggles the flag.                                          *)
EventSetToggles(e) == ~e

(* asyncio.Event.set(): the flag becomes true, whatever it was.            *)
EventSet(e) == TRUE

(* The OS-signal handler: term() sets the global event.                    *)
Term ==
    /\ end_event' = EventSet(end_event)
    /\ UNCHANGED <<supVars, result, mainVars, uartVars>>

----------------------------------------------------------------------------
(* Subprocess supervisor: async_subproc.                                   *)

(* handle_gdb and handle_ocd: the arguments they pass to async_subproc.    *)
GdbSig  == Some("SIGKILL")
GdbMask == None
OcdSig  == None

(* handle_ocd without mask_return.                                         *)
OcdMaskMissing == None

OcdMask == Some(0 - 15)

(* A mask that reports 0 for every code once a mask is configured.         *)
MaskReturnAny(c, m) == IF m # None THEN 0 ELSE c

(* The value async_subproc returns for exit code c under mask m.           *)
MaskReturn(c, m) == IF m # None /\ c = m[1] THEN 0 ELSE c

(* A return that leaves the end signal as it is.                           *)
SubprocReturnSilent(s) ==
    /\ end_event' = end_event
    /\ result' = [result EXCEPT ![s] = Some(MaskReturn(returncode[s][1], mask_return[s]))]
    /\ pcS' = [pcS EXCEPT ![s] = "done"]
    /\ UNCHANGED sent

(* Lines 62-69: the loop has ended; propagate the end signal and return.   *)
SubprocReturn(s) ==
    /\ end_event' = IF ~end_event THEN EventSet(end_event) ELSE end_event
    /\ result' = [result EXCEPT ![s] = Some(MaskReturn(returncode[s][1], mask_return[s]))]
    /\ pcS' = [pcS EXCEPT ![s] = "done"]
    /\ UNCHANGED sent

(* A stop that does not wait for the process but goes on polling.          *)
SubprocStopNoWait(s) ==
    /\ sent' = [sent EXCEPT ![s] = Append(@, StopSignal(sig[s]))]
    /\ pcS' = [pcS EXCEPT ![s] = "sleep"]
    /\ UNCHANGED <<end_event, result>>

(* Lines 53-58: the process is alive and the event is set: signal and wait.*)
SubprocStop(s) ==
    /\ sent' = [sent EXCEPT ![s] = Append(@, StopSignal(sig[s]))]
    /\ pcS' = [pcS EXCEPT ![s] = "wait"]
    /\ UNCHANGED <<end_event, result>>

(* Lines 60-61: the process is alive and the event is not set: sleep.      *)
SubprocSleep(s) ==
    /\ pcS' = [pcS EXCEPT ![s] = "sleep"]
    /\ UNCHANGED <<end_event, result, sent>>

(* Lines 52-69, one evaluation of the while loop from its head.            *)
SubprocLoop(s) ==
    IF returncode[s] # None THEN SubprocReturn(s)
    ELSE IF end_event THEN SubprocStop(s)
    ELSE SubprocSleep(s)

(* Lines 48-52: the task starts, spawns the process, enters the loop.      *)
SubprocSpawn(s) ==
    /\ pcS[s] = "init"
    /\ proc' = [proc EXCEPT ![s] = "running"]
    /\ pcS' = [pcS EXCEPT ![s] = "loop"]
    /\ UNCHANGED <<end_event, result, sig, mask_return, returncode, sent, mainVars, uartVars>>

(* The loop head is evaluated after the spawn and after every sleep.       *)
SubprocPoll(s) ==
    /\ pcS[s] \in {"loop", "sleep"}
    /\ SubprocLoop(s)
    /\ UNCHANGED <<sig, mask_return, proc, returncode, mainVars, uartVars>>

(* Line 58: `await p.wait()` returns once the process has exited; the      *)
(* loop condition is then false.                                           *)
SubprocWaited(s) ==
    /\ pcS[s] = "wait"
    /\ returncode[s] # None
    /\ SubprocReturn(s)
    /\ UNCHANGED <<sig, mask_return, proc, returncode, mainVars, uartVars>>

(* The environment: a running process exits; asyncio records its code.     *)
ProcExit(s) ==
    /\ proc[s] = "running"
    /\ \E c \in ExitCodesAfter(sent[s]) :
          returncode' = [returncode EXCEPT ![s] = Some(c)]
    /\ proc' = [proc EXCEPT ![s] = "exited"]
    /\ UNCHANGED <<end_event, result, sig, mask_return, pcS, sent, mainVars, uartVars>>

----------------------------------------------------------------------------
(* Control lines.  A line is the sequence of its ':'-separated fields, so  *)
(* "@dutctl:psumeas:idle:0:vdd:1" is <<"@dutctl","psumeas","idle","0",     *)
(* "vdd","1">>.  The regular expressions of dut.py are evaluated on the    *)
(* fields; the tables below say what `\d+` and float() make of a field.    *)

(* '@' + tname, with tname = TOOL_NAME.                                    *)
Tool == "@dutctl"

(* The longest prefix of a field that `\d+` matches, as a number; None if  *)
(* the field does not start with a digit.                                  *)
DigitPrefix(f) ==
    CASE f = "0"  -> Some(0)
      [] f = "1"  -> Some(1)
      [] f = "2"  -> Some(2)
      [] f = "5"  -> Some(5)
      [] f = "9"  -> Some(9)
      [] f = "5x" -> Some(5)
      [] OTHER    -> None

(* Whether `\d+` consumes the whole field.                                 *)
AllDigits(f) == f \in {"0", "1", "2", "5", "9"}

(* try_float: float(expr), or None on ValueError.                          *)
try_float(expr) ==
    CASE expr = "0" -> Some(0)
      [] expr = "1" -> Some(1)
      [] expr = "2" -> Some(2)
      [] expr = "5" -> Some(5)
      [] expr = "9" -> Some(9)
      [] OTHER      -> None

(* literal_or_str: ast.literal_eval(expr), or expr itself on ValueError.   *)
(* A payload that is no Python expression makes literal_eval raise         *)
(* SyntaxError, which literal_or_str does not catch.                       *)
literal_or_str(expr) ==
    CASE expr = "42"  -> [raised |-> FALSE, val |-> <<"int", "42">>]
      [] expr = "abc" -> [raised |-> FALSE, val |-> <<"str", "abc">>]
      [] OTHER        -> [raised |-> TRUE,  val |-> <<"SyntaxError", expr>>]

(* ':'.join(fields)                                                        *)
RECURSIVE JoinFields(_)
JoinFields(fields) ==
    IF Len(fields) = 1 THEN fields[1]
    ELSE fields[1] \o ":" \o JoinFields(Tail(fields))

(* str.startswith(f'@{tname}:{kind}:')                                     *)
StartsWithKind(line, kind) ==
    /\ Len(line) >= 3
    /\ line[1] = Tool
    /\ line[2] = kind

(* uart_handle_serial, line 194: line.startswith(f'@{tname}')              *)
StartsWithTool(line) == Len(line) >= 1 /\ line[1] \in {Tool, "@dutctlx"}

(* re.match('@' + tname + r':dutmeas:([^:]+):([^\r\n]+)', line): the       *)
(* groups, or None.  The value group runs to the end of the line.          *)
DutmeasMatch(line) ==
    IF /\ StartsWithKind(line, "dutmeas")
       /\ Len(line) >= 4
       /\ line[3] # ""
       /\ (Len(line) > 4 \/ line[4] # "")
    THEN Some(<<line[3], JoinFields(SubSeq(line, 4, Len(line)))>>)
    ELSE None

(* re.match('@' + tname + ':psu' + name +                                  *)
(*          r':([^:]+):(\d+)(?::([^:\r\n]+))?(?::(\d+))?', line):          *)
(* the four groups, or None.  The match is anchored at the start only, so  *)
(* the optional groups are tried right after the digits of the delay.      *)
PsuMatch(name, line) ==
    IF /\ StartsWithKind(line, "psu" \o name)
       /\ Len(line) >= 4
       /\ line[3] # ""
       /\ DigitPrefix(line[4]) # None
    THEN LET more    == AllDigits(line[4])
             hasSup  == more /\ Len(line) >= 5 /\ line[5] # ""
             hasChan == hasSup /\ Len(line) >= 6 /\ DigitPrefix(line[6]) # None
         IN  Some([g0 |-> line[3],
                   g1 |-> DigitPrefix(line[4])[1],
                   g2 |-> IF hasSup THEN Some(line[5]) ELSE None,
                   g3 |-> IF hasChan THEN DigitPrefix(line[6]) ELSE None])
    ELSE None

----------------------------------------------------------------------------
(* Instrument configuration and the instrument layer (aginstr.py).         *)

(* dict iteration order of the supplies (psu_instrs and psu_configs are    *)
(* built from the same YAML mapping).                                      *)
SupplyOrder == <<"vdd", "vio", "vaux">>

(* A PsuChannel.                                                           *)
PsuChannel(vol, volmin, volmax, active, measure, measure_vol) ==
    [vol |-> vol, volmin |-> volmin, volmax |-> volmax, active |-> active,
     measure |-> measure, measure_vol |-> measure_vol]

(* A PsuConfig.                                                            *)
PsuConfig(channels, reset_gpio) == [channels |-> channels, reset_gpio |-> reset_gpio]

(* The configuration the run is started with: supply -> PsuConfig.         *)
InitConfigs ==
    [s \in {"vdd", "vio"} |->
        IF s = "vdd"
        THEN PsuConfig((1 :> PsuChannel(1, 0, 2, TRUE, TRUE, TRUE)) @@
                       (2 :> PsuChannel(1, 0, 2, TRUE, FALSE, FALSE)), 0)
        ELSE PsuConfig((1 :> PsuChannel(2, 0, 5, TRUE, TRUE, FALSE)), 0)]

(* The elements of a set of numbers in increasing order.                   *)
RECURSIVE SortedSeq(_)
SortedSeq(S) ==
    IF S = {} THEN <<>>
    ELSE LET m == CHOOSE x \in S : \A y \in S : x <= y
         IN  <<m>> \o SortedSeq(S \ {m})

Cmd(line, instr, op, ch, arg) ==
    [line |-> line, instr |-> instr, op |-> op, ch |-> ch, arg |-> arg]

(* set_psu_channel_configs without the range assertion of set_pch_vol_cur.  *)
RECURSIVE set_psu_channel_configs_unchecked(_, _, _, _, _)
set_psu_channel_configs_unchecked(line, instr, channels, order, toggle_output_state) ==
    IF order = <<>> THEN [cmds |-> <<>>, raised |-> FALSE]
    ELSE LET chan == Head(order)
             cfg  == channels[chan]
             rest == set_psu_channel_configs_unchecked(line, instr, channels,
                         Tail(order), toggle_output_state)
         IN  [cmds |-> <<Cmd(line, instr, "APPLY", chan, cfg.vol),
                         Cmd(line, instr, "SENSE", chan, 0)>> \o
                       (IF toggle_output_state
                        THEN <<Cmd(line, instr, "OUTPUT", chan,
                                   IF cfg.active THEN 1 ELSE 0)>>
                        ELSE <<>>) \o rest.cmds,
              raised |-> FALSE]

(* set_psu_channel_configs over the channels `order` of one supply:        *)
(* set_pch_vol_cur asserts volmin <= vol <= volmax and writes APPLY, then  *)
(* set_pch_fourwire writes the sense source, then set_pch_active writes    *)
(* the output state if toggle_output_state.  Returns the commands written  *)
(* and whether the assertion failed on the way.                            *)
RECURSIVE set_psu_channel_configs(_, _, _, _, _)
set_psu_channel_configs(line, instr, channels, order, toggle_output_state) ==
    IF order = <<>> THEN [cmds |-> <<>>, raised |-> FALSE]
    ELSE LET chan == Head(order)
             cfg  == channels[chan]
         IN  IF ~(cfg.volmin <= cfg.vol /\ cfg.vol <= cfg.volmax)
             THEN [cmds |-> <<>>, raised |-> TRUE]
             ELSE LET rest == set_psu_channel_configs(line, instr, channels,
                                  Tail(order), toggle_output_state)
                      here == <<Cmd(line, instr, "APPLY", chan, cfg.vol),
                                Cmd(line, instr, "SENSE", chan, 0)>> \o
                              (IF toggle_output_state
                               THEN <<Cmd(line, instr, "OUTPUT", chan,
                                          IF cfg.active THEN 1 ELSE 0)>>
                               ELSE <<>>)
                  IN  [cmds |-> here \o rest.cmds, raised |-> rest.raised]

(* The supplies of a configuration, in dict order.                         *)
Supplies(configs) == SelectSeq(SupplyOrder, LAMBDA n : n \in DOMAIN configs)

(* set_pch_active(instr, active, channel): channel 0 stands for channel 1. *)
set_pch_active(instr, active, channel) ==
    Cmd(0, instr, "OUTPUT", IF channel = 0 THEN 1 ELSE channel, IF active THEN 1 ELSE 0)

(* set_psu_gpio_state(instr, pin, val): its three writes.                  *)
set_psu_gpio_state(instr, pin, val) ==
    <<Cmd(0, instr, "PIN_FUNCTION", pin, 0),
      Cmd(0, instr, "PIN_POLARITY", pin, 0),
      Cmd(0, instr, "DIGITAL_DATA", 0, IF val THEN 1 ELSE 0)>>

(* One loop of reset over the supplies: every supply with a reset GPIO     *)
(* has it driven to `val`.                                                 *)
RECURSIVE ResetLoop(_, _, _)
ResetLoop(order, configs, val) ==
    IF order = <<>> THEN <<>>
    ELSE (IF configs[Head(order)].reset_gpio # 0
          THEN set_psu_gpio_state(Head(order), configs[Head(order)].reset_gpio, val)
          ELSE <<>>) \o ResetLoop(Tail(order), configs, val)

(* The sleep of reset between its second and third loop.                   *)
Hold(t_rst) == <<Cmd(0, "host", "SLEEP", 0, t_rst)>>

(* reset(instrs, psu_configs, initial_low, t_rst): the writes it makes.    *)
(* initial_low is used for its truth value.                                *)
reset(configs, initial_low, t_rst) ==
    (IF ~initial_low THEN ResetLoop(Supplies(configs), configs, TRUE) ELSE <<>>) \o
    ResetLoop(Supplies(configs), configs, FALSE) \o
    Hold(t_rst) \o
    ResetLoop(Supplies(configs), configs, TRUE)

(* A power_off that switches every supply whatever `ganged` says.          *)
power_off_each(configs, is_ganged) ==
    [cmds |-> [k \in 1..Len(Supplies(configs)) |->
                  set_pch_active(Supplies(configs)[k], FALSE, 0)],
     raised |-> FALSE]

(* power_off(instrs, psu_configs, ganged): next(iter(instrs.values()))     *)
(* raises StopIteration when there is no supply.                           *)
power_off(configs, is_ganged) ==
    LET order == Supplies(configs)
    IN  IF is_ganged
        THEN IF order = <<>> THEN [cmds |-> <<>>, raised |-> TRUE]
             ELSE [cmds |-> <<set_pch_active(Head(order), FALSE, 0)>>, raised |-> FALSE]
        ELSE [cmds |-> [k \in 1..Len(order) |-> set_pch_active(order[k], FALSE, 0)],
              raised |-> FALSE]

(* The loop of power_reset_cycle, lines 247-252.                           *)
RECURSIVE CycleLoop(_, _, _, _)
CycleLoop(order, configs, is_ganged, rst_instr) ==
    IF order = <<>> THEN [cmds |-> <<>>, raised |-> FALSE]
    ELSE LET name == Head(order)
             head == (IF rst_instr THEN <<Cmd(0, name, "RST", 0, 0)>> ELSE <<>>) \o
                     <<Cmd(0, name, "PAIR", 0, 0)>>
             one  == set_psu_channel_configs(0, name, configs[name].channels,
                         SortedSeq(DOMAIN configs[name].channels), ~is_ganged)
         IN  IF one.raised THEN [cmds |-> head \o one.cmds, raised |-> TRUE]
             ELSE LET rest == CycleLoop(Tail(order), configs, is_ganged, rst_instr)
                  IN  [cmds |-> head \o one.cmds \o rest.cmds, raised |-> rest.raised]

(* A power cycle that enables the shared output before it configures the  *)
(* supplies and pulses the reset GPIOs before it enables.                  *)
power_reset_cycle_early(configs, is_ganged, t_rst, rst_instr) ==
    LET off  == power_off(configs, is_ganged)
        loop == CycleLoop(Supplies(configs), configs, is_ganged, rst_instr)
    IN  IF off.raised THEN off
        ELSE IF loop.raised THEN [cmds |-> off.cmds \o loop.cmds, raised |-> TRUE]
        ELSE [cmds |-> off.cmds \o
                       (IF is_ganged
                        THEN <<set_pch_active(Head(Supplies(configs)), TRUE, 0)>>
                        ELSE <<>>) \o
                       reset(configs, TRUE, t_rst) \o loop.cmds,
              raised |-> FALSE]

(* power_reset_cycle(instrs, psu_configs, ganged, t_rst, rst_instr).       *)
power_reset_cycle(configs, is_ganged, t_rst, rst_instr) ==
    LET off  == power_off(configs, is_ganged)
        loop == CycleLoop(Supplies(configs), configs, is_ganged, rst_instr)
    IN  IF off.raised THEN off
        ELSE IF loop.raised THEN [cmds |-> off.cmds \o loop.cmds, raised |-> TRUE]
        ELSE [cmds |-> off.cmds \o loop.cmds \o
                       (IF is_ganged
                        THEN <<set_pch_active(Head(Supplies(configs)), TRUE, 0)>>
                        ELSE <<>>) \o
                       reset(configs, TRUE, t_rst),
              raised |-> FALSE]

(* dict iteration order of the signal generators.                          *)
SiggenOrder == <<"sg0", "sg1">>

(* A SiggenSource: the fields that decide which commands are sent.         *)
SiggenSource(leakoff, active) == [leakoff |-> leakoff, active |-> active]

Siggens(sconfigs) == SelectSeq(SiggenOrder, LAMBDA g : g \in DOMAIN sconfigs)

(* set_sigsrc_active(instr, active, source)                                *)
set_sigsrc_active(instr, active, source) ==
    Cmd(0, instr, "SRC_OUTPUT", source, IF active THEN 1 ELSE 0)

(* The sources of one generator switched off; with only_leakoff, those     *)
(* flagged leakoff only.                                                   *)
RECURSIVE SourcesOff(_, _, _, _)
SourcesOff(gname, sources, order, only_leakoff) ==
    IF order = <<>> THEN <<>>
    ELSE (IF only_leakoff /\ ~sources[Head(order)].leakoff
          THEN <<>>
          ELSE <<set_sigsrc_active(gname, FALSE, Head(order))>>) \o
         SourcesOff(gname, sources, Tail(order), only_leakoff)

RECURSIVE GensOff(_, _, _)
GensOff(order, sconfigs, only_leakoff) ==
    IF order = <<>> THEN <<>>
    ELSE SourcesOff(Head(order), sconfigs[Head(order)].sources,
                    SortedSeq(DOMAIN sconfigs[Head(order)].sources), only_leakoff) \o
         GensOff(Tail(order), sconfigs, only_leakoff)

(* siggens_off(instrs, siggen_configs)                                     *)
siggens_off(sconfigs) == GensOff(Siggens(sconfigs), sconfigs, FALSE)

(* siggens_leak_off(instrs, siggen_configs)                                *)
siggens_leak_off(sconfigs) == GensOff(Siggens(sconfigs), sconfigs, TRUE)

(* set_siggen_source_configs(instr, source_configs, True)                  *)
RECURSIVE set_siggen_source_configs(_, _, _)
set_siggen_source_configs(gname, sources, order) ==
    IF order = <<>> THEN <<>>
    ELSE <<Cmd(0, gname, "SRC_FREQ", Head(order), 0),
           Cmd(0, gname, "SRC_HIGH", Head(order), 0),
           Cmd(0, gname, "SRC_LOW", Head(order), 0),
           Cmd(0, gname, "SRC_FUNC", Head(order), 0),
           Cmd(0, gname, "SRC_DCYC", Head(order), 0),
           set_sigsrc_active(gname, sources[Head(order)].active, Head(order))>> \o
         set_siggen_source_configs(gname, sources, Tail(order))

RECURSIVE ReconfLoop(_, _)
ReconfLoop(order, sconfigs) ==
    IF order = <<>> THEN <<>>
    ELSE set_siggen_source_configs(Head(order), sconfigs[Head(order)].sources,
             SortedSeq(DOMAIN sconfigs[Head(order)].sources)) \o
         ReconfLoop(Tail(order), sconfigs)

(* reconf_siggens(instrs, siggen_configs) with its defaults stop_instr =   *)
(* True, rst_instr = False.                                                *)
reconf_siggens(sconfigs) == siggens_off(sconfigs) \o ReconfLoop(Siggens(sconfigs), sconfigs)

(* time.sleep(t) in main.                                                  *)
Sleep(t) == <<Cmd(0, "host", "SLEEP", 0, t)>>

(* An application to every supply, in scope or not, output state included. *)
RECURSIVE ControlSuppliesAll(_, _, _, _)
ControlSuppliesAll(line, order, loc, configs) ==
    IF order = <<>> THEN [cmds |-> <<>>, raised |-> FALSE]
    ELSE LET name == Head(order)
         IN  IF name \notin DOMAIN configs
             THEN ControlSuppliesAll(line, Tail(order), loc, configs)
             ELSE LET one == set_psu_channel_configs(line, name,
                                 configs[name].channels,
                                 SortedSeq(DOMAIN configs[name].channels), TRUE)
                  IN  IF one.raised THEN one
                      ELSE LET rest == ControlSuppliesAll(line, Tail(order), loc, configs)
                           IN  [cmds |-> one.cmds \o rest.cmds, raised |-> rest.raised]

(* uart_handle_control_lines, lines 161-164: for every instrument whose    *)
(* name is in psu_configs_loc, apply the channels of psu_configs[name].    *)
RECURSIVE ControlSupplies(_, _, _, _)
ControlSupplies(line, order, loc, configs) ==
    IF order = <<>> THEN [cmds |-> <<>>, raised |-> FALSE]
    ELSE LET name == Head(order)
         IN  IF name \notin loc
             THEN ControlSupplies(line, Tail(order), loc, configs)
             ELSE LET one == set_psu_channel_configs(line, name,
                                 configs[name].channels,
                                 SortedSeq(DOMAIN configs[name].channels), FALSE)
                  IN  IF one.raised THEN one
                      ELSE LET rest == ControlSupplies(line, Tail(order), loc, configs)
                           IN  [cmds |-> one.cmds \o rest.cmds, raised |-> rest.raised]

(* meas_vol_cur over one supply's channels: the queries it sends.          *)
RECURSIVE MeasChannels(_, _, _, _, _)
MeasChannels(line, pname, channels, order, measure_all) ==
    IF order = <<>> THEN <<>>
    ELSE LET cidx == Head(order)
             ccfg == channels[cidx]
             rest == MeasChannels(line, pname, channels, Tail(order), measure_all)
         IN  IF ~ccfg.measure /\ ~measure_all THEN rest
             ELSE <<Cmd(line, pname, "MEAS_CURR", cidx, 0)>> \o
                  (IF ccfg.measure_vol
                   THEN <<Cmd(line, pname, "MEAS_VOLT", cidx, 0)>>
                   ELSE <<>>) \o rest

(* meas_vol_cur(instrs, psu_configs, measure_all): the queries it sends,   *)
(* in order; psu_configs here is the dict `loc` of supplies.               *)
RECURSIVE MeasQueries(_, _, _, _, _)
MeasQueries(line, order, loc, configs, measure_all) ==
    IF order = <<>> THEN <<>>
    ELSE LET pname == Head(order)
             rest  == MeasQueries(line, Tail(order), loc, configs, measure_all)
         IN  IF pname \notin loc THEN rest
             ELSE MeasChannels(line, pname, configs[pname].channels,
                      SortedSeq(DOMAIN configs[pname].channels), measure_all) \o rest

(* A channel loop of meas_vol_cur that measures every channel, flagged or  *)
(* not.                                                                    *)
RECURSIVE MeasRetChannelsAll(_, _, _, _, _)
MeasRetChannelsAll(pname, channels, order, measure_all, ret) ==
    IF order = <<>> THEN ret
    ELSE LET cidx == Head(order)
             ccfg == channels[cidx]
             r1   == IF pname \in DOMAIN ret THEN ret ELSE (pname :> <<>>) @@ ret
             keys == {"cur"} \cup (IF ccfg.measure_vol THEN {"vol"} ELSE {})
             r2   == [r1 EXCEPT ![pname] = (cidx :> keys) @@ r1[pname]]
         IN  MeasRetChannelsAll(pname, channels, Tail(order), measure_all, r2)

(* meas_vol_cur, lines 265-274: the channel loop over one supply, building *)
(* `ret`.  A channel neither flagged nor covered by measure_all is skipped *)
(* before the supply or the channel is entered in ret.  A reading is       *)
(* modelled by its key, 'cur' or 'vol'.                                    *)
RECURSIVE MeasRetChannels(_, _, _, _, _)
MeasRetChannels(pname, channels, order, measure_all, ret) ==
    IF order = <<>> THEN ret
    ELSE LET cidx == Head(order)
             ccfg == channels[cidx]
         IN  IF ~ccfg.measure /\ ~measure_all
             THEN MeasRetChannels(pname, channels, Tail(order), measure_all, ret)
             ELSE LET r1   == IF pname \in DOMAIN ret THEN ret ELSE (pname :> <<>>) @@ ret
                      keys == {"cur"} \cup (IF ccfg.measure_vol THEN {"vol"} ELSE {})
                      r2   == [r1 EXCEPT ![pname] = (cidx :> keys) @@ r1[pname]]
                  IN  MeasRetChannels(pname, channels, Tail(order), measure_all, r2)

(* meas_vol_cur, lines 262-275: the supply loop.                           *)
RECURSIVE MeasRet(_, _, _, _, _)
MeasRet(order, loc, configs, measure_all, ret) ==
    IF order = <<>> THEN ret
    ELSE LET pname == Head(order)
         IN  IF pname \notin loc
             THEN MeasRet(Tail(order), loc, configs, measure_all, ret)
             ELSE MeasRet(Tail(order), loc, configs, measure_all,
                      MeasRetChannels(pname, configs[pname].channels,
                          SortedSeq(DOMAIN configs[pname].channels), measure_all, ret))

(* meas_vol_cur(instrs, psu_configs, measure_all): the returned mapping    *)
(* supply -> channel -> readings; psu_configs here is the dict `loc`.      *)
meas_vol_cur(loc, configs, measure_all) ==
    MeasRet(SupplyOrder, loc, configs, measure_all, <<>>)

----------------------------------------------------------------------------
(* parse_psuline, lines 94-126: everything before the sleep.  Returns      *)
(* whether the line is valid, the error printed if not, the groups, the    *)
(* keys of psu_configs_loc and the configuration the call leaves behind.   *)
(* psu_configs_loc holds the PsuConfig objects of psu_configs themselves,  *)
(* so line 117 replaces the channels of the run's configuration.           *)
(* A parse_psuline that takes a line naming an unknown channel for a line  *)
(* naming the supply only.                                                 *)
parse_psuline_lenient(name, line, configs) ==
    LET m == PsuMatch(name, line)
        bad(e) == [valid |-> FALSE, err |-> e, groups |-> None,
                   loc |-> {}, configs |-> configs]
    IN  IF m = None \/ (name = "ctl" /\ try_float(m[1].g0) = None)
        THEN bad("malformed")
        ELSE LET psuline == m[1]
             IN  IF psuline.g2 = None
                 THEN [valid |-> TRUE, err |-> "", groups |-> psuline,
                       loc |-> DOMAIN configs, configs |-> configs]
                 ELSE IF psuline.g2[1] \notin DOMAIN configs
                 THEN bad("unknown supply")
                 ELSE [valid |-> TRUE, err |-> "", groups |-> psuline,
                       loc |-> {psuline.g2[1]}, configs |-> configs]

parse_psuline(name, line, configs) ==
    LET m == PsuMatch(name, line)
        bad(e) == [valid |-> FALSE, err |-> e, groups |-> None,
                   loc |-> {}, configs |-> configs]
    IN  IF m = None \/ (name = "ctl" /\ try_float(m[1].g0) = None)
        THEN bad("malformed")
        ELSE LET psuline == m[1]
             IN  IF psuline.g2 = None
                 THEN [valid |-> TRUE, err |-> "", groups |-> psuline,
                       loc |-> DOMAIN configs, configs |-> configs]
                 ELSE LET supply == psuline.g2[1]
                      IN  IF supply \notin DOMAIN configs
                          THEN bad("unknown supply")
                          ELSE IF psuline.g3 = None
                          THEN [valid |-> TRUE, err |-> "", groups |-> psuline,
                                loc |-> {supply}, configs |-> configs]
                          ELSE LET cidx == psuline.g3[1]
                               IN  IF cidx \notin DOMAIN configs[supply].channels
                                   THEN bad("unknown channel")
                                   ELSE LET old == configs[supply].channels[cidx]
                                            new == IF name = "ctl"
                                                   THEN [old EXCEPT !.vol = try_float(psuline.g0)[1]]
                                                   ELSE old
                                        IN  [valid |-> TRUE, err |-> "", groups |-> psuline,
                                             loc |-> {supply},
                                             configs |-> [configs EXCEPT
                                                 ![supply].channels = (cidx :> new)]]

----------------------------------------------------------------------------
(* The line queue (asyncio.Queue).                                         *)
(* A put that jumps the queue.                                             *)
QueuePutFront(q, x) == <<x>> \o q

(* put_nowait, line 196.                                                   *)
QueuePut(q, x) == Append(q, x)
QueueFront(q)  == Head(q)
QueueRest(q)   == Tail(q)

(* No line is in processing.                                               *)
NoLine == [idx |-> 0]

Err(line, kind) == [line |-> line, kind |-> kind]

(* The serial pipeline of a chip before its tasks have run: handle_uart at *)
(* `pc` ("none" if the chip has no pipeline), no queue and no tasks yet.   *)
Pipeline(pc) ==
    [pcC |-> pc, pcR |-> "none", pushed |-> <<>>, line_queue |-> <<>>, unfinished |-> 0,
     pcP |-> "none", cur |-> NoLine, exc |-> None, sink |-> <<>>, errs |-> <<>>,
     trace |-> <<>>, res |-> None]

(* The processor has popped the line at the front of the queue.            *)
Popped ==
    /\ pcP \in {"get", "pop"}
    /\ line_queue # <<>>
    /\ line_queue' = QueueRest(line_queue)
    /\ UNCHANGED <<pushed, end_event, supVars, result, mainVars, pcC, pcR, dut_lines, dut_count>>

(* Lines 98-100, 109-112, 123-126, 149-151, 173-174: print the error,      *)
(* acknowledge the line, go on with the loop.                              *)
Discard(i, kind) ==
    /\ errs' = Append(errs, Err(i, kind))
    /\ unfinished' = unfinished - 1
    /\ trace' = trace \o <<<<"start", i>>, <<"end", i>>>>
    /\ pcP' = "loop"
    /\ UNCHANGED <<cur, exc, sink, cmds>>

(* An exception that ends the task without its finally clause.             *)
RaiseSkipsFinally(e) ==
    /\ exc' = Some(e)
    /\ pcP' = "done"
    /\ cur' = NoLine
    /\ UNCHANGED <<unfinished, errs, sink>>

(* An exception leaves the `async with` block: the file is closed, then    *)
(* the finally clause runs.  The line in hand is not acknowledged.         *)
Raise(e) ==
    /\ exc' = Some(e)
    /\ pcP' = "closing"
    /\ cur' = NoLine
    /\ UNCHANGED <<unfinished, errs, sink>>

(* Lines 139-143: the task starts, writes '[' and opens the file.          *)
ControlStart ==
    /\ pcP = "init"
    /\ sink' = <<[t |-> "["]>>
    /\ pcP' = "open"
    /\ UNCHANGED <<end_event, supVars, result, mainVars, pcC, pcR, dut_lines, dut_count, qVars,
                   cur, exc, psu_configs, cmds, errs, trace>>

(* Line 144: the loop condition, evaluated once the file is open and       *)
(* after every line.  Line 145: if the event is not set, get() suspends    *)
(* the task ("get") when the queue is empty and returns its front line at  *)
(* once ("pop") otherwise.                                                 *)
ControlLoop ==
    /\ pcP \in {"open", "loop"}
    /\ pcP' = IF end_event THEN "closing"
              ELSE IF line_queue = <<>> THEN "get" ELSE "pop"
    /\ UNCHANGED <<end_event, supVars, result, mainVars, pcC, pcR, dut_lines, dut_count, qVars,
                   cur, exc, psu_configs, sink, cmds, errs, trace>>

(* Lines 145-153: a dutmeas line.                                          *)
ControlDutmeas ==
    /\ Popped
    /\ LET i       == QueueFront(line_queue)
           line    == pushed[i]
           dutmeas == DutmeasMatch(line)
       IN  /\ StartsWithKind(line, "dutmeas")
           /\ IF dutmeas = None
              THEN Discard(i, "malformed")
              ELSE LET value == literal_or_str(dutmeas[1][2])
                   IN  IF value.raised
                       THEN /\ Raise("SyntaxError")
                            /\ trace' = Append(trace, <<"start", i>>)
                            /\ UNCHANGED cmds
                       ELSE /\ cur' = [idx |-> i,
                                       rec |-> [t |-> "rec", line |-> i,
                                                key |-> dutmeas[1][1], val |-> value.val]]
                            /\ pcP' = "write"
                            /\ trace' = Append(trace, <<"start", i>>)
                            /\ UNCHANGED <<exc, unfinished, sink, cmds, errs>>
    /\ UNCHANGED psu_configs

(* A psuctl/psumeas step that reads the instruments before the sleep.      *)
ControlPsuEager(name) ==
    /\ Popped
    /\ LET i    == QueueFront(line_queue)
           line == pushed[i]
           r    == parse_psuline(name, line, psu_configs)
       IN  /\ ~StartsWithKind(line, "dutmeas")
           /\ StartsWithKind(line, "psu" \o name)
           /\ psu_configs' = r.configs
           /\ IF ~r.valid
              THEN Discard(i, r.err)
              ELSE /\ cur' = [idx |-> i, name |-> name, groups |-> r.groups, loc |-> r.loc]
                   /\ pcP' = "delay"
                   /\ trace' = Append(trace, <<"start", i>>)
                   /\ cmds' = cmds \o MeasQueries(i, SupplyOrder, r.loc, r.configs, TRUE)
                   /\ UNCHANGED <<exc, unfinished, sink, errs>>

(* Lines 154-158 and 165-169 with parse_psuline up to its sleep.           *)
ControlPsu(name) ==
    /\ Popped
    /\ LET i    == QueueFront(line_queue)
           line == pushed[i]
           r    == parse_psuline(name, line, psu_configs)
       IN  /\ ~StartsWithKind(line, "dutmeas")
           /\ StartsWithKind(line, "psu" \o name)
           /\ psu_configs' = r.configs
           /\ IF ~r.valid
              THEN Discard(i, r.err)
              ELSE /\ cur' = [idx |-> i, name |-> name, groups |-> r.groups, loc |-> r.loc]
                   /\ pcP' = "delay"
                   /\ trace' = Append(trace, <<"start", i>>)
                   /\ UNCHANGED <<exc, unfinished, sink, cmds, errs>>

(* Lines 172-174: the line starts with none of the three prefixes.         *)
ControlOther ==
    /\ Popped
    /\ LET i    == QueueFront(line_queue)
           line == pushed[i]
       IN  /\ ~StartsWithKind(line, "dutmeas")
           /\ ~StartsWithKind(line, "psuctl")
           /\ ~StartsWithKind(line, "psumeas")
           /\ Discard(i, "malformed")
    /\ UNCHANGED psu_configs

(* Lines 128-130 and 159-164, 174: the sleep of a psuctl line is over;     *)
(* apply the channel configurations.  `io` says whether the instrument     *)
(* accepted the writes.                                                    *)
ControlApply(io) ==
    /\ pcP = "delay"
    /\ cur.name = "ctl"
    /\ LET r == ControlSupplies(cur.idx, SupplyOrder, cur.loc, psu_configs)
       IN  IF ~io
           THEN Raise("VisaIOError") /\ UNCHANGED <<cmds, trace>>
           ELSE /\ cmds' = cmds \o r.cmds
                /\ IF r.raised
                   THEN Raise("AssertionError") /\ UNCHANGED trace
                   ELSE /\ unfinished' = unfinished - 1
                        /\ trace' = Append(trace, <<"end", cur.idx>>)
                        /\ cur' = NoLine
                        /\ pcP' = "loop"
                        /\ UNCHANGED <<exc, sink, errs>>
    /\ UNCHANGED <<end_event, supVars, result, mainVars, pcC, pcR, dut_lines, dut_count,
                   pushed, line_queue, psu_configs>>

(* Lines 128-130, 171 and 87-88: the sleep of a psumeas line is over; the  *)
(* read is handed to the executor.                                         *)
ControlMeasure ==
    /\ pcP = "delay"
    /\ cur.name = "meas"
    /\ pcP' = "meas"
    /\ UNCHANGED <<end_event, supVars, result, mainVars, pcC, pcR, dut_lines, dut_count, qVars,
                   cur, exc, psu_configs, sink, cmds, errs, trace>>

(* Lines 87-89, 76-81: the executor is done; `io` says whether the read    *)
(* succeeded.  The record is handed to the file writer.                    *)
ControlMeasured(io) ==
    /\ pcP = "meas"
    /\ IF ~io
       THEN Raise("VisaIOError") /\ UNCHANGED cmds
       ELSE /\ cmds' = cmds \o MeasQueries(cur.idx, SupplyOrder, cur.loc, psu_configs, FALSE)
            /\ cur' = [idx |-> cur.idx,
                       rec |-> [t |-> "rec", line |-> cur.idx, key |-> cur.groups.g0,
                                val |-> meas_vol_cur(cur.loc, psu_configs, FALSE)]]
            /\ pcP' = "write"
            /\ UNCHANGED <<exc, unfinished, sink, errs>>
    /\ UNCHANGED <<end_event, supVars, result, mainVars, pcC, pcR, dut_lines, dut_count,
                   pushed, line_queue, psu_configs, trace>>

(* Lines 81 and 174: the record is written; the line is acknowledged.      *)
ControlWrote ==
    /\ pcP = "write"
    /\ sink' = Append(sink, cur.rec)
    /\ unfinished' = unfinished - 1
    /\ trace' = Append(trace, <<"end", cur.idx>>)
    /\ cur' = NoLine
    /\ pcP' = "loop"
    /\ UNCHANGED <<end_event, supVars, result, mainVars, pcC, pcR, dut_lines, dut_count,
                   pushed, line_queue, exc, psu_configs, cmds, errs>>

(* Lines 176-182: the finally clause writes ']' and pops every line left,  *)
(* printing an error for and acknowledging each.                           *)
ControlFinally ==
    /\ pcP = "closing"
    /\ sink' = Append(sink, [t |-> "]"])
    /\ errs' = errs \o [k \in 1..Len(line_queue) |-> Err(line_queue[k], "terminated")]
    /\ unfinished' = unfinished - Len(line_queue)
    /\ line_queue' = <<>>
    /\ pcP' = "done"
    /\ UNCHANGED <<end_event, supVars, result, mainVars, pcC, pcR, dut_lines, dut_count,
                   pushed, cur, exc, psu_configs, cmds, trace>>

(* asyncio.run cancels the tasks still pending once main has returned:     *)
(* CancelledError is raised at the await the processor is suspended in.    *)
(* The first step of the task is queued before handle_uart can return, so  *)
(* the task has reached its first await (line 143) by then.                *)
ControlCancelled ==
    /\ pcMain = "done"
    /\ pcP \in {"open", "loop", "get", "pop", "delay", "meas", "write"}
    /\ pcP' = "closing"
    /\ exc' = Some("CancelledError")
    /\ cur' = NoLine
    /\ UNCHANGED <<end_event, supVars, result, mainVars, pcC, pcR, dut_lines, dut_count, qVars,
                   psu_configs, sink, cmds, errs, trace>>

----------------------------------------------------------------------------
(* Serial line reader: uart_handle_serial.                                 *)

(* Lines 188-190: the task starts and opens the serial link and the log.   *)
SerialStart ==
    /\ pcR = "init"
    /\ pcR' = "read"
    /\ UNCHANGED <<end_event, supVars, result, mainVars, pcC, dut_lines, dut_count, qVars, procVars>>

(* Lines 192-196: a line has been read; a line that starts with the tool   *)
(* prefix is put on the queue, stripped.  Line 197 then waits for the log. *)
SerialLine(line) ==
    /\ pcR = "read"
    /\ pcR' = "write"
    /\ IF StartsWithTool(line)
       THEN /\ Len(pushed) < dut_count
            /\ pushed' = Append(pushed, line)
            /\ line_queue' = QueuePut(line_queue, Len(pushed) + 1)
            /\ unfinished' = unfinished + 1
       ELSE UNCHANGED qVars
    /\ UNCHANGED <<end_event, supVars, result, mainVars, pcC, dut_lines, dut_count, procVars>>

(* Line 197: the line is in the log; read the next one.                    *)
SerialLogged ==
    /\ pcR = "write"
    /\ pcR' = "read"
    /\ UNCHANGED <<end_event, supVars, result, mainVars, pcC, dut_lines, dut_count, qVars, procVars>>

(* Line 193 when the serial link has closed: readline returns an empty     *)
(* line at once, or raises the error the transport reported.  An empty     *)
(* line is not a control line and the loop goes on reading; an error ends  *)
(* the task.  Either way nothing is queued any more and line 193-197 hold  *)
(* no access to end_event.                                                 *)
SerialEof ==
    /\ pcR = "read"
    /\ pcR' = "eof"
    /\ UNCHANGED <<end_event, supVars, result, mainVars, pcC, dut_lines, dut_count, qVars, procVars>>

----------------------------------------------------------------------------
(* Serial coordinator: handle_uart.                                        *)

(* A coordinator that returns without waiting for the queue to drain.       *)
HandleUartLoopNoJoin ==
    IF ~end_event
    THEN /\ pcC' = "sleep"
         /\ UNCHANGED <<result, pcR>>
    ELSE /\ pcR' = "cancelled"
         /\ pcC' = "done"
         /\ result' = [result EXCEPT !["uart"] = Some(0)]

(* Lines 209-217, from the head of the while loop.                         *)
HandleUartLoop ==
    IF ~end_event
    THEN /\ pcC' = "sleep"
         /\ UNCHANGED <<result, pcR>>
    ELSE /\ pcR' = "cancelled"
         /\ IF pcP # "done" /\ unfinished > 0
            THEN pcC' = "join" /\ UNCHANGED result
            ELSE pcC' = "done" /\ result' = [result EXCEPT !["uart"] = Some(0)]

(* Lines 202-209: the task starts, creates the queue and the two tasks,    *)
(* and evaluates the loop condition for the first time.                    *)
HandleUartStart ==
    /\ pcC = "init"
    /\ pcP' = "init"
    /\ \/ ~end_event /\ pcC' = "sleep" /\ pcR' = "init" /\ UNCHANGED result
       \/ /\ end_event
          /\ pcR' = "cancelled"
          /\ pcC' = "done"
          /\ result' = [result EXCEPT !["uart"] = Some(0)]
    /\ UNCHANGED <<end_event, supVars, mainVars, dut_lines, dut_count, qVars,
                   cur, exc, psu_configs, sink, cmds, errs, trace>>

(* Line 210: the sleep is over; evaluate the loop condition again.         *)
HandleUartPoll ==
    /\ pcC = "sleep"
    /\ HandleUartLoop
    /\ UNCHANGED <<end_event, supVars, mainVars, dut_lines, dut_count, qVars, procVars>>

(* Line 215: line_queue.join() returns when every line is acknowledged.    *)
HandleUartJoined ==
    /\ pcC = "join"
    /\ unfinished = 0
    /\ pcC' = "done"
    /\ result' = [result EXCEPT !["uart"] = Some(0)]
    /\ UNCHANGED <<end_event, supVars, mainVars, pcR, dut_lines, dut_count, qVars, procVars>>

----------------------------------------------------------------------------
(* Run orchestrator: main, lines 256-261.                                  *)

(* A fold step that keeps the later non-zero code.                         *)
OrReturnsLast(a, b) == IF b # 0 THEN b ELSE a

(* The lambda of line 261: a or b.                                         *)
OrReturns(a, b) == IF a # 0 THEN a ELSE b

(* functools.reduce(f, results, initial)                                   *)
RECURSIVE Reduce(_, _)
Reduce(results, initial) ==
    IF results = <<>> THEN initial
    ELSE Reduce(Tail(results), OrReturns(initial, Head(results)))

(* Lines 257-261: every task has returned; fold the results.               *)
Gather ==
    /\ pcMain = "gather"
    /\ \A k \in 1..Len(tasks) : result[tasks[k]] # None
    /\ mainResult' = Some(Reduce([k \in 1..Len(tasks) |-> result[tasks[k]][1]], 0))
    /\ pcMain' = "done"
    /\ UNCHANGED <<end_event, supVars, result, tasks, instr_cfg, chip, peer, ganged, args, siggen_cfgs, uartVars>>

----------------------------------------------------------------------------
(* Inputs.                                                                 *)

(* Serial output of the DUT that is no control line.                       *)
Chatter == <<"hello">>

(* Control lines of every shape the processor tells apart.                 *)
ControlLines ==
    { <<Tool, "dutmeas", "cycles", "42">>,
      <<Tool, "dutmeas", "name", "abc">>,
      <<Tool, "dutmeas", "msg", "hello world">>,
      <<Tool, "dutmeas", "cycles">>,
      <<Tool, "psumeas", "idle", "0", "vdd", "1">>,
      <<Tool, "psumeas", "idle", "5">>,
      <<Tool, "psumeas", "idle">>,
      <<Tool, "psumeas", "idle", "5", "vcc">>,
      <<Tool, "psumeas", "idle", "0", "vdd", "9">>,
      <<Tool, "psumeas", "idle", "0", "vdd", "x">>,
      <<Tool, "psumeas", "idle", "5x">>,
      <<Tool, "psuctl", "2", "0", "vdd", "2">>,
      <<Tool, "psuctl", "abc", "0", "vdd", "1">>,
      <<Tool, "psuctl", "1", "abc">>,
      <<Tool, "psuctl", "1", "5", "vio">>,
      <<Tool, "bogus", "x">>,
      <<"@dutctlx">> }

(* Lines of a run in which the supervisors take part.                      *)
RunLines ==
    { <<Tool, "dutmeas", "cycles", "42">>,
      <<Tool, "psumeas", "idle", "0", "vdd", "1">>,
      <<Tool, "psuctl", "2", "0", "vdd", "2">>,
      <<Tool, "bogus", "x">> }

(* The parsed command line: action, --noreconf, --noreset, --trst and the  *)
(* waits --tswait, --trafter, --tlwait (times in tenths of a second).      *)
Args(action, noreconf, noreset, trst) ==
    [action |-> action, noreconf |-> noreconf, noreset |-> noreset, trst |-> trst,
     tswait |-> 2, trafter |-> 3, tlwait |-> 4]

(* Signal-generator configurations of a run.                               *)
SiggenChoiceA ==
    "sg0" :> [sources |-> (1 :> SiggenSource(TRUE, TRUE)) @@ (2 :> SiggenSource(FALSE, TRUE))]
SiggenChoiceB ==
    ("sg0" :> [sources |-> (1 :> SiggenSource(FALSE, TRUE))]) @@
    ("sg1" :> [sources |-> (1 :> SiggenSource(TRUE, FALSE)) @@ (2 :> SiggenSource(FALSE, FALSE))])
SiggenChoices == {SiggenChoiceA, SiggenChoiceB}

(* Supply configurations of a run: one in range with two channels, one     *)
(* whose configured voltage exceeds its maximum, one with a reset GPIO.    *)
PsuChoices ==
    { PsuConfig((1 :> PsuChannel(1, 0, 2, TRUE, TRUE, TRUE)) @@
                (2 :> PsuChannel(1, 0, 2, FALSE, FALSE, FALSE)), 0),
      PsuConfig((1 :> PsuChannel(3, 0, 2, TRUE, TRUE, FALSE)), 1),
      PsuConfig((1 :> PsuChannel(2, 0, 5, FALSE, TRUE, TRUE)), 2) }

(* The configurations with n supplies.                                     *)
ConfigsOf(n) == [{SupplyOrder[k] : k \in 1..n} -> PsuChoices]

(* The task sets main can launch for one chip (parse_and_validate_args:    *)
(* gdb implies ocd, uart and gdb need action run, run needs gdb).          *)
Launches == { <<>>, <<"ocd">>, <<"ocd", "gdb">>, <<"ocd", "uart", "gdb">> }

InSeq(x, seq) == \E k \in 1..Len(seq) : seq[k] = x

(* handle_uart has not created its queue and tasks (yet).                  *)
NoPipeline(lines, count) ==
    /\ pcR = "none"
    /\ dut_lines = lines
    /\ dut_count = count
    /\ pushed = <<>>
    /\ line_queue = <<>>
    /\ unfinished = 0
    /\ pcP = "none"
    /\ cur = NoLine
    /\ exc = None
    /\ psu_configs = InitConfigs
    /\ sink = <<>>
    /\ cmds = <<>>
    /\ errs = <<>>
    /\ trace = <<>>

(* The state in which main reaches line 257 with `launch` created.         *)
Launched(launch, lines, count, sigs, masks) ==
    /\ end_event = FALSE
    /\ tasks = launch
    /\ sig = sigs
    /\ mask_return = masks
    /\ pcS = [s \in Supervisors |-> IF InSeq(s, launch) THEN "init" ELSE "none"]
    /\ proc = [s \in Supervisors |-> "none"]
    /\ returncode = [s \in Supervisors |-> None]
    /\ sent = [s \in Supervisors |-> <<>>]
    /\ result = [t \in Supervisors \cup {"uart"} |-> None]
    /\ pcMain = "gather"
    /\ mainResult = None
    /\ instr_cfg = [ganged |-> TRUE]
    /\ chip = 0
    /\ peer = Pipeline("none")
    /\ ganged = TRUE
    /\ args = Args("run", FALSE, FALSE, 5)
    /\ siggen_cfgs = SiggenChoiceA
    /\ pcC = IF InSeq("uart", launch) THEN "init" ELSE "none"
    /\ NoPipeline(lines, count)


(* The arguments of the supervisors; `s` and `m` are those of "sub".       *)
Sigs(s)  == [x \in Supervisors |->
                IF x = "gdb" THEN GdbSig ELSE IF x = "ocd" THEN OcdSig ELSE s]
Masks(m) == [x \in Supervisors |->
                IF x = "gdb" THEN GdbMask ELSE IF x = "ocd" THEN OcdMask ELSE m]

Init ==
    \E launch \in Launches :
        Launched(launch, RunLines, MaxRunLines, Sigs(None), Masks(None))

Supervise ==
    \E s \in Supervisors :
        SubprocSpawn(s) \/ SubprocPoll(s) \/ SubprocWaited(s) \/ ProcExit(s)

Serial == SerialStart \/ (\E l \in dut_lines \cup {Chatter} : SerialLine(l)) \/ SerialLogged \/ SerialEof

Control ==
    \/ ControlStart \/ ControlLoop \/ ControlDutmeas
    \/ (\E name \in {"ctl", "meas"} : ControlPsu(name))
    \/ ControlOther
    \/ (\E io \in BOOLEAN : ControlApply(io))
    \/ ControlMeasure
    \/ (\E io \in BOOLEAN : ControlMeasured(io))
    \/ ControlWrote \/ ControlFinally \/ ControlCancelled

HandleUart == HandleUartStart \/ HandleUartPoll \/ HandleUartJoined

Next == Term \/ Supervise \/ Serial \/ Control \/ HandleUart \/ Gather

Spec == Init /\ [][Next]_vars

----------------------------------------------------------------------------
(* The serial pipeline on its own: handle_uart and its two tasks under an  *)
(* end_event that is set at any moment, which is all the pipeline sees of  *)
(* the supervisors.  The DUT emits control lines of every shape.           *)
InitUart == Launched(<<"uart">>, ControlLines, MaxLines, Sigs(None), Masks(None))

NextUart == Term \/ Serial \/ Control \/ HandleUart \/ Gather

SpecUart == InitUart /\ [][NextUart]_vars

(* The event loop runs every task that can take a step; the operator's     *)
(* signal is not bound to come.                                            *)
FairUart ==
    /\ SpecUart
    /\ WF_vars(Serial) /\ WF_vars(Control) /\ WF_vars(HandleUart) /\ WF_vars(Gather)

----------------------------------------------------------------------------
(* One async_subproc call with any stop signal and any masked code.        *)
SubSigs  == {None, Some("SIGKILL"), Some("SIGTERM")}
SubMasks == {None, Some(0), Some(1), Some(KilledBy("SIGTERM")), Some(KilledBy("SIGKILL"))}

InitSup ==
    \E s \in SubSigs, m \in SubMasks :
        Launched(<<"sub">>, {}, 0, Sigs(s), Masks(m))

NextSup ==
    \/ Term
    \/ SubprocSpawn("sub") \/ SubprocPoll("sub") \/ SubprocWaited("sub") \/ ProcExit("sub")
    \/ Gather

SpecSup == InitSup /\ [][NextSup]_vars

----------------------------------------------------------------------------
(* The fold of main over the results of any tasks: the state in which      *)
(* every task created by lines 236-254 has returned.                       *)
MaxTasks == 4

(* Keys of `tasks` in creation order, for two chips.                       *)
TaskKeys == <<"ocd0", "ocd1", "uart0", "gdb0", "uart1", "gdb1">>

(* Values a task can return: handle_uart returns 0.                        *)
TaskCodes(key) ==
    IF key \in {"uart0", "uart1"} THEN {0}
    ELSE {0, 1, 2, KilledBy("SIGKILL")}

InitAgg ==
    \E n \in 0..MaxTasks :
        LET keys == {TaskKeys[k] : k \in 1..n}
        IN  \E res \in [keys -> UNION {TaskCodes(key) : key \in keys}] :
                /\ \A key \in keys : res[key] \in TaskCodes(key)
                /\ end_event = (n > 0)
                /\ tasks = SubSeq(TaskKeys, 1, n)
                /\ result = [key \in keys |-> Some(res[key])]
                /\ sig = Sigs(None)
                /\ mask_return = Masks(None)
                /\ pcS = [s \in Supervisors |-> "none"]
                /\ proc = [s \in Supervisors |-> "none"]
                /\ returncode = [s \in Supervisors |-> None]
                /\ sent = [s \in Supervisors |-> <<>>]
                /\ pcMain = "gather"
                /\ mainResult = None
                /\ instr_cfg = [ganged |-> TRUE]
                /\ chip = 0
                /\ peer = Pipeline("none")
                /\ ganged = TRUE
                /\ args = Args("run", FALSE, FALSE, 5)
                /\ siggen_cfgs = SiggenChoiceA
                /\ pcC = "none"
                /\ NoPipeline({}, 0)

NextAgg == Gather

SpecAgg == InitAgg /\ [][NextAgg]_vars


----------------------------------------------------------------------------
(* The instrument phase of main, lines 199-228, followed by the serial     *)
(* pipeline of a run.                                                      *)
MaxSupplies == 2

(* reset's default t_rst, in tenths of a second.                           *)
DefTRst == 1

(* async_meas(psu_instrs, psu_cfgs, name=...) in main: the queries of      *)
(* meas_vol_cur over the whole configuration.                              *)
MainMeas == MeasQueries(0, SupplyOrder, DOMAIN psu_configs, psu_configs, FALSE)

(* Lines 206-213: the branch of the actions cycle, run and leak.           *)
MainCycle ==
    LET cyc == power_reset_cycle(psu_configs, ganged, args.trst, TRUE)
        rst == IF ~args.noreset THEN reset(psu_configs, args.trst # 0, DefTRst) ELSE <<>>
    IN  IF args.noreconf THEN [cmds |-> rst, raised |-> FALSE]
        ELSE IF cyc.raised
        THEN [cmds |-> siggens_off(siggen_cfgs) \o cyc.cmds, raised |-> TRUE]
        ELSE [cmds |-> siggens_off(siggen_cfgs) \o cyc.cmds \o Sleep(args.tswait) \o
                       MainMeas \o reconf_siggens(siggen_cfgs) \o rst,
              raised |-> FALSE]

(* Lines 199-221: supply management by action, then the wait.              *)
MainSupply ==
    /\ pcMain = "supply"
    /\ LET off == power_off(psu_configs, ganged)
           r == CASE args.action = "reset" ->
                       [cmds |-> reconf_siggens(siggen_cfgs) \o
                                 reset(psu_configs, args.trst # 0, DefTRst),
                        raised |-> FALSE]
                  [] args.action = "poweroff" ->
                       [cmds |-> siggens_off(siggen_cfgs) \o off.cmds, raised |-> off.raised]
                  [] args.action \in {"cycle", "run", "leak"} -> MainCycle
                  [] args.action = "measure" -> [cmds |-> MainMeas, raised |-> FALSE]
       IN  IF r.raised
           THEN cmds' = cmds \o r.cmds /\ pcMain' = "failed"
           ELSE /\ cmds' = cmds \o r.cmds \o
                           (IF args.action # "measure" THEN Sleep(args.trafter) ELSE <<>>)
                /\ pcMain' = "leak"
    /\ UNCHANGED <<end_event, supVars, result, tasks, mainResult, instr_cfg, chip, peer, ganged, args, siggen_cfgs,
                   pcC, pcR, dut_lines, dut_count, qVars,
                   pcP, cur, exc, psu_configs, sink, errs, trace>>

(* Lines 223-228: the leak phase.                                          *)
MainLeak ==
    /\ pcMain = "leak"
    /\ cmds' = IF args.action = "leak"
               THEN cmds \o siggens_off(siggen_cfgs) \o Sleep(args.tlwait) \o MainMeas
               ELSE cmds
    /\ pcMain' = "launch"
    /\ UNCHANGED <<end_event, supVars, result, tasks, mainResult, instr_cfg, chip, peer, ganged, args, siggen_cfgs,
                   pcC, pcR, dut_lines, dut_count, qVars,
                   pcP, cur, exc, psu_configs, sink, errs, trace>>

(* Lines 231-257: the tasks are created (here the serial pipeline of a     *)
(* run) and main awaits them.                                              *)
MainLaunch ==
    /\ pcMain = "launch"
    /\ tasks' = IF args.action = "run" THEN <<"uart">> ELSE <<>>
    /\ pcC' = IF args.action = "run" THEN "init" ELSE "none"
    /\ pcMain' = "gather"
    /\ UNCHANGED <<end_event, supVars, result, mainResult, instr_cfg, chip, peer, ganged, args, siggen_cfgs,
                   pcR, dut_lines, dut_count, qVars, procVars>>

(* psuctl lines of a run: in range, out of range, and without a scope.     *)
CtlLines ==
    { <<Tool, "psuctl", "2", "0", "vdd", "1">>,
      <<Tool, "psuctl", "9", "0", "vdd", "1">>,
      <<Tool, "psuctl", "1", "0">> }

Actions == {"reset", "cycle", "leak", "measure", "run", "poweroff"}

(* The state before any task exists: configuration loaded, instruments     *)
(* connected, nothing sent yet.                                            *)
Loaded(configs, cfg_ganged, sconfigs, a, is_ganged, pc, lines, count) ==
    /\ end_event = FALSE
    /\ tasks = <<>>
    /\ sig = Sigs(None)
    /\ mask_return = Masks(None)
    /\ pcS = [s \in Supervisors |-> "none"]
    /\ proc = [s \in Supervisors |-> "none"]
    /\ returncode = [s \in Supervisors |-> None]
    /\ sent = [s \in Supervisors |-> <<>>]
    /\ result = [t \in Supervisors \cup {"uart"} |-> None]
    /\ pcMain = pc
    /\ mainResult = None
    /\ instr_cfg = [ganged |-> cfg_ganged]
    /\ chip = 0
    /\ peer = Pipeline("none")
    /\ ganged = is_ganged
    /\ args = a
    /\ siggen_cfgs = sconfigs
    /\ pcC = "none"
    /\ pcR = "none"
    /\ dut_lines = lines
    /\ dut_count = count
    /\ pushed = <<>>
    /\ line_queue = <<>>
    /\ unfinished = 0
    /\ pcP = "none"
    /\ cur = NoLine
    /\ exc = None
    /\ psu_configs = configs
    /\ sink = <<>>
    /\ cmds = <<>>
    /\ errs = <<>>
    /\ trace = <<>>

(* main at line 199: whatever the configuration file says about ganging,   *)
(* psus_ganged is bound to the supplies mapping itself (line 195), which   *)
(* is true when not empty.                                                 *)
InitMain ==
    \E n \in 0..MaxSupplies, action \in Actions, noreconf, noreset \in BOOLEAN,
       trst \in {0, 5} :
        \E configs \in ConfigsOf(n), sconfigs \in SiggenChoices :
            Loaded(configs, TRUE, sconfigs, Args(action, noreconf, noreset, trst),
                   n > 0, "supply", CtlLines, MaxRunLines)

NextMain ==
    \/ MainSupply \/ MainLeak \/ MainLaunch
    \/ Term \/ Serial
    \/ ControlStart \/ ControlLoop \/ ControlPsu("ctl")
    \/ (\E io \in BOOLEAN : ControlApply(io))
    \/ ControlFinally \/ ControlCancelled
    \/ HandleUart \/ Gather

SpecMain == InitMain /\ [][NextMain]_vars

(* The instrument phase of main, lines 188-228, for configurations that    *)
(* say ganged and configurations that say not ganged.                      *)
InitGang ==
    \E n \in 0..MaxSupplies, action \in Actions, noreconf, noreset \in BOOLEAN,
       trst \in {0, 5} :
        \E configs \in ConfigsOf(n), sconfigs \in SiggenChoices, cfg_ganged \in BOOLEAN :
            Loaded(configs, cfg_ganged, sconfigs, Args(action, noreconf, noreset, trst),
                   n > 0, "supply", {}, 0)

NextGang == MainSupply \/ MainLeak

SpecGang == InitGang /\ [][NextGang]_vars

----------------------------------------------------------------------------
(* A run with --nchips 2 and both UARTs given: lines 242-249 create one    *)
(* handle_uart task per chip, each with its own queue, reader and          *)
(* processor, and hand every one of them the same psu_instrs and the same  *)
(* psu_cfgs dictionary.  The pipeline variables describe the pipeline of   *)
(* `chip`; `peer` holds the pipeline of the other chip.                    *)

(* The pipeline of `chip` as a record.                                     *)
ThisPipeline ==
    [pcC |-> pcC, pcR |-> pcR, pushed |-> pushed, line_queue |-> line_queue,
     unfinished |-> unfinished, pcP |-> pcP, cur |-> cur, exc |-> exc, sink |-> sink,
     errs |-> errs, trace |-> trace, res |-> result["uart"]]

(* The event loop turns from the tasks of one chip to those of the other:  *)
(* the supplies' configuration, the instruments and end_event are the same *)
(* objects for both.                                                       *)
LoopSwitch ==
    /\ peer.pcC # "none"
    /\ chip' = 1 - chip
    /\ peer' = ThisPipeline
    /\ pcC' = peer.pcC
    /\ pcR' = peer.pcR
    /\ pushed' = peer.pushed
    /\ line_queue' = peer.line_queue
    /\ unfinished' = peer.unfinished
    /\ pcP' = peer.pcP
    /\ cur' = peer.cur
    /\ exc' = peer.exc
    /\ sink' = peer.sink
    /\ errs' = peer.errs
    /\ trace' = peer.trace
    /\ result' = [result EXCEPT !["uart"] = peer.res]
    /\ UNCHANGED <<end_event, supVars, tasks, pcMain, mainResult, instr_cfg, ganged, args,
                   siggen_cfgs, dut_lines, dut_count, psu_configs, cmds>>

(* Lines 257-261 with the tasks uart0 and uart1: both have returned.       *)
GatherChips ==
    /\ pcMain = "gather"
    /\ result["uart"] # None
    /\ peer.res # None
    /\ mainResult' = Some(Reduce(IF chip = 0 THEN <<result["uart"][1], peer.res[1]>>
                                 ELSE <<peer.res[1], result["uart"][1]>>, 0))
    /\ pcMain' = "done"
    /\ UNCHANGED <<end_event, supVars, result, tasks, instr_cfg, chip, peer, ganged, args, siggen_cfgs, uartVars>>

(* What the DUTs print: a measurement of every supply, a voltage for one   *)
(* channel, a DUT measurement and a line of no known kind.                 *)
ChipLines ==
    { <<Tool, "psumeas", "idle", "5">>,
      <<Tool, "psuctl", "2", "0", "vdd", "2">>,
      <<Tool, "dutmeas", "cycles", "42">>,
      <<Tool, "bogus", "x">> }

InitChips ==
    /\ end_event = FALSE
    /\ tasks = <<"uart">>
    /\ sig = Sigs(None)
    /\ mask_return = Masks(None)
    /\ pcS = [s \in Supervisors |-> "none"]
    /\ proc = [s \in Supervisors |-> "none"]
    /\ returncode = [s \in Supervisors |-> None]
    /\ sent = [s \in Supervisors |-> <<>>]
    /\ result = [t \in Supervisors \cup {"uart"} |-> None]
    /\ pcMain = "gather"
    /\ mainResult = None
    /\ instr_cfg = [ganged |-> TRUE]
    /\ chip = 0
    /\ peer = Pipeline("init")
    /\ ganged = TRUE
    /\ args = Args("run", FALSE, FALSE, 5)
    /\ siggen_cfgs = SiggenChoiceA
    /\ pcC = "init"
    /\ NoPipeline(ChipLines, MaxRunLines)

NextChips == Term \/ Serial \/ Control \/ HandleUart \/ LoopSwitch \/ GatherChips

SpecChips == InitChips /\ [][NextChips]_vars

----------------------------------------------------------------------------
(* power_off and power_reset_cycle called with any configuration and       *)
(* either value of `ganged`.                                               *)

PowerOff ==
    /\ pcMain = "power"
    /\ LET r == power_off(psu_configs, ganged)
       IN  /\ cmds' = r.cmds
           /\ pcMain' = IF r.raised THEN "failed" ELSE "off"
    /\ UNCHANGED <<end_event, supVars, result, tasks, mainResult, instr_cfg, chip, peer, ganged, args, siggen_cfgs,
                   pcC, pcR, dut_lines, dut_count, qVars,
                   pcP, cur, exc, psu_configs, sink, errs, trace>>

PowerResetCycle(rst_instr) ==
    /\ pcMain = "power"
    /\ LET r == power_reset_cycle(psu_configs, ganged, args.trst, rst_instr)
       IN  /\ cmds' = r.cmds
           /\ pcMain' = IF r.raised THEN "failed" ELSE "cycled"
    /\ UNCHANGED <<end_event, supVars, result, tasks, mainResult, instr_cfg, chip, peer, ganged, args, siggen_cfgs,
                   pcC, pcR, dut_lines, dut_count, qVars,
                   pcP, cur, exc, psu_configs, sink, errs, trace>>

(* reset(instrs, psu_configs, initial_low, t_rst), aginstr.py:216-226.     *)
ResetCall(initial_low) ==
    /\ pcMain = "power"
    /\ cmds' = reset(psu_configs, initial_low, args.trst)
    /\ cur' = [idx |-> 0, initial_low |-> initial_low]
    /\ pcMain' = "pulsed"
    /\ UNCHANGED <<end_event, supVars, result, tasks, mainResult, instr_cfg, chip, peer, ganged, args, siggen_cfgs,
                   pcC, pcR, dut_lines, dut_count, qVars,
                   pcP, exc, psu_configs, sink, errs, trace>>

InitPsu ==
    \E n \in 0..MaxSupplies, is_ganged \in BOOLEAN, trst \in {0, 5} :
        \E configs \in ConfigsOf(n) :
            Loaded(configs, is_ganged, SiggenChoiceA, Args("cycle", FALSE, FALSE, trst),
                   is_ganged, "power", {}, 0)

NextPsu ==
    \/ PowerOff
    \/ (\E rst_instr \in BOOLEAN : PowerResetCycle(rst_instr))
    \/ (\E initial_low \in BOOLEAN : ResetCall(initial_low))

SpecPsu == InitPsu /\ [][NextPsu]_vars

----------------------------------------------------------------------------
(* meas_vol_cur called on any scope of any configuration, with and without *)
(* measure_all, and its result written out as async_meas does.             *)

(* Supply configurations that differ in their measurement flags: a flagged *)
(* and an unflagged channel; one channel not flagged but with voltage      *)
(* readback; one channel flagged without voltage readback.                 *)
MeasChoices ==
    { PsuConfig((1 :> PsuChannel(1, 0, 2, TRUE, TRUE, TRUE)) @@
                (2 :> PsuChannel(1, 0, 2, TRUE, FALSE, FALSE)), 0),
      PsuConfig((1 :> PsuChannel(1, 0, 2, TRUE, FALSE, TRUE)), 0),
      PsuConfig((1 :> PsuChannel(1, 0, 2, TRUE, TRUE, FALSE)), 0) }

(* aginstr.meas_vol_cur(psu_instrs, psu_configs, measure_all), lines       *)
(* 261-275, as run by the executor (dut.py:87-88).                         *)
MeasCall(scope, measure_all) ==
    /\ pcMain = "measure"
    /\ cur' = [idx |-> 0, loc |-> scope, all |-> measure_all,
               ret |-> meas_vol_cur(scope, psu_configs, measure_all)]
    /\ cmds' = MeasQueries(0, SupplyOrder, scope, psu_configs, measure_all)
    /\ pcMain' = "measured"
    /\ UNCHANGED <<end_event, supVars, result, tasks, mainResult, instr_cfg, chip, peer, ganged, args, siggen_cfgs,
                   pcC, pcR, dut_lines, dut_count, qVars,
                   pcP, exc, psu_configs, sink, errs, trace>>

(* write_out_meas({name: meas_dat}), dut.py:89 and 76-81.                  *)
MeasWrite ==
    /\ pcMain = "measured"
    /\ sink' = Append(sink, [t |-> "rec", line |-> 0, key |-> "name", val |-> cur.ret])
    /\ pcMain' = "written"
    /\ UNCHANGED <<end_event, supVars, result, tasks, mainResult, instr_cfg, chip, peer, ganged, args, siggen_cfgs,
                   pcC, pcR, dut_lines, dut_count, qVars,
                   pcP, cur, exc, psu_configs, cmds, errs, trace>>

InitMeas ==
    \E n \in 0..MaxSupplies :
        \E configs \in [{SupplyOrder[k] : k \in 1..n} -> MeasChoices] :
            Loaded(configs, TRUE, SiggenChoiceA, Args("measure", FALSE, FALSE, 0),
                   n > 0, "measure", {}, 0)

NextMeas ==
    \/ \E scope \in SUBSET DOMAIN psu_configs, measure_all \in BOOLEAN :
          MeasCall(scope, measure_all)
    \/ MeasWrite

SpecMeas == InitMeas /\ [][NextMeas]_vars

----------------------------------------------------------------------------
(* Termination signal.                                                     *)

(* C1: once end_event is set no step clears it, and a term() that finds it *)
(* set changes nothing at all.                                             *)
C1_SetOnceAndIdempotent ==
    [][ /\ end_event => end_event'
        /\ (end_event /\ Term) => UNCHANGED vars ]_vars

(* The signal is set while tasks of all kinds are still running, so it is  *)
(* set again by term() and by the supervisors that return later.           *)
C1_Witness ==
    /\ end_event
    /\ pcS["ocd"] = "sleep"
    /\ pcS["gdb"] = "done"
    /\ pcC = "sleep"

(* C2: a supervisor that has returned has left end_event set, whether its  *)
(* process ended by itself or was stopped.                                 *)
C2_ReturnedImpliesSet ==
    \A s \in Supervisors : pcS[s] = "done" => end_event

(* A supervisor has returned whose process was never sent a signal.        *)
C2_Witness ==
    \E s \in Supervisors :
        /\ pcS[s] = "done"
        /\ sent[s] = <<>>
        /\ returncode[s] \in {Some(0), Some(1)}

(* C5: a supervisor signals its process only with end_event set and no     *)
(* exit code seen, does so at most once and then waits until the process   *)
(* has exited; with end_event unset and the process alive a step of the    *)
(* supervisor only puts it to sleep.                                       *)
C5_StopOnceThenWait ==
    [][ \A s \in Supervisors :
          /\ sent'[s] # sent[s] =>
                /\ end_event
                /\ returncode[s] = None
                /\ sent[s] = <<>>
                /\ Len(sent'[s]) = 1
                /\ pcS'[s] = "wait"
          /\ (pcS[s] = "wait" /\ pcS'[s] # "wait") =>
                /\ returncode[s] # None
                /\ pcS'[s] = "done"
          /\ (pcS[s] \in {"loop", "sleep"} /\ pcS'[s] # pcS[s]
                /\ ~end_event /\ returncode[s] = None) =>
                /\ pcS'[s] = "sleep"
                /\ sent'[s] = sent[s] ]_vars

(* A supervisor has signalled its process and waits for it to exit.        *)
C5_Witness ==
    \E s \in Supervisors :
        /\ pcS[s] = "wait"
        /\ Len(sent[s]) = 1
        /\ returncode[s] = None

(* C6: async_subproc returns 0 when a mask is configured and the exit code *)
(* equals it, and the exit code itself in every other case.                *)
C6_Masking ==
    pcS["sub"] = "done" =>
        LET c == returncode["sub"][1]
            m == mask_return["sub"]
        IN  /\ (m # None /\ c = m[1]) => result["sub"] = Some(0)
            /\ (m = None \/ c # m[1]) => result["sub"] = Some(c)

(* A non-zero exit code was masked, and the call has returned.             *)
C6_Witness ==
    /\ pcS["sub"] = "done"
    /\ mask_return["sub"] = returncode["sub"]
    /\ returncode["sub"] # Some(0)
    /\ result["sub"] = Some(0)

C8_FirstNonZero ==
    pcMain = "done" =>
        LET nz == {k \in 1..Len(tasks) : result[tasks[k]] # Some(0)}
        IN  /\ (mainResult = Some(0)) <=> (nz = {})
            /\ nz # {} =>
                  \E k \in nz : /\ \A j \in nz : k <= j
                                /\ mainResult = result[tasks[k]]

(* main has returned after two tasks returned different non-zero codes.    *)
C8_Witness ==
    /\ pcMain = "done"
    /\ \E j, k \in 1..Len(tasks) :
          /\ j < k
          /\ result[tasks[j]] # Some(0)
          /\ result[tasks[k]] # Some(0)
          /\ result[tasks[j]] # result[tasks[k]]

----------------------------------------------------------------------------
(* Termination propagation.                                                *)

(* Some supervised process has ended by itself and its supervisor has      *)
(* returned.                                                               *)
EndedUnprompted == \E s \in Supervisors : pcS[s] = "done" /\ sent[s] = <<>>

(* A supervisor resumed from its poll sleep with end_event set stops its   *)
(* process or, if the process has exited, returns.                         *)
SupervisorsObserve ==
    \A s \in Supervisors :
        (end_event /\ pcS[s] \in {"loop", "sleep"} /\ pcS'[s] # pcS[s])
            => pcS'[s] \in {"wait", "done"}

(* The coordinator resumed from its poll sleep with end_event set cancels  *)
(* the reader and goes on to the join.                                     *)
CoordinatorObserves ==
    (end_event /\ pcC = "sleep" /\ pcC' # pcC)
        => (pcR' = "cancelled" /\ pcC' \in {"join", "done"})

(* The processor resumed from the get() it was suspended in on an empty    *)
(* queue, with end_event set, begins its shutdown.                         *)
ProcessorObserves ==
    (end_event /\ pcP = "get" /\ pcP' # pcP) => pcP' = "closing"

(* C3 as claimed: once a supervised task has ended unprompted, end_event   *)
(* is set and every other supervisor, the coordinator and the control-line *)
(* processor (also one waiting on an empty queue) begin to shut down at    *)
(* the next point they are resumed at.                                     *)
C3_AllObserve ==
    [][EndedUnprompted =>
          /\ end_event
          /\ SupervisorsObserve
          /\ CoordinatorObserves
          /\ ProcessorObserves]_vars

(* The part of C3 that holds: the signal is set and the supervisors and    *)
(* the coordinator observe it at their next poll.                          *)
C3_PollersObserve ==
    [][ /\ EndedUnprompted => end_event
        /\ SupervisorsObserve
        /\ CoordinatorObserves ]_vars

(* C4 as claimed: once end_event is set the run ends, so as long as main   *)
(* has not returned some task can take a step (given that a process that   *)
(* was sent its stop signal exits).                                        *)
C4_RunCanEnd ==
    (end_event /\ pcMain # "done") =>
        ENABLED (Supervise \/ Control \/ HandleUart \/ Gather)

(* The wait of the coordinator for the queue to drain can end: while it    *)
(* waits, the processor has not ended with lines left unacknowledged.      *)
C4_JoinCanEnd == ~(pcC = "join" /\ pcP = "done" /\ unfinished > 0)

----------------------------------------------------------------------------
(* Order of processing.                                                    *)

(* The number of lines whose processing has started before position p of   *)
(* the trace.                                                              *)
StartedBefore(p) == Cardinality({q \in 1..(p - 1) : trace[q][1] = "start"})

(* The queued lines wait in the order of their push.                       *)
IncreasingQueue == \A k \in 1..(Len(line_queue) - 1) : line_queue[k] < line_queue[k + 1]

(* C9: the lines are popped and processed in the order the reader pushed   *)
(* them, whatever their delays: the j-th line whose processing starts is   *)
(* the j-th line pushed, the processing of line k+1 starts only after that *)
(* of line k (delay included) has ended, and the lines still queued wait   *)
(* in push order behind the one in processing.                             *)
C9_Fifo ==
    /\ \A p \in 1..Len(trace) :
          trace[p][1] = "start" =>
              /\ trace[p][2] = StartedBefore(p) + 1
              /\ trace[p][2] > 1 =>
                    \E q \in 1..(p - 1) : trace[q] = <<"end", trace[p][2] - 1>>
    /\ IncreasingQueue
    /\ \A k \in 1..Len(line_queue) :
          /\ line_queue[k] \in 1..Len(pushed)
          /\ cur.idx < line_queue[k]
          /\ \A p \in 1..Len(trace) : trace[p][2] < line_queue[k]

(* C9 witness: the first line carries a longer delay than the second, the  *)
(* second was queued behind it, and both have been processed in turn.      *)
C9_Witness ==
    /\ Len(pushed) = 2
    /\ pushed[1] = <<Tool, "psumeas", "idle", "5">>
    /\ pushed[2] = <<Tool, "psumeas", "idle", "0", "vdd", "1">>
    /\ trace = <<<<"start", 1>>, <<"end", 1>>, <<"start", 2>>, <<"end", 2>>>>
    /\ Len(sink) = 3

----------------------------------------------------------------------------
(* Lines that cannot be resolved.                                          *)

PsuKinds == {"psuctl", "psumeas"}

(* The line follows none of the three line formats                         *)
(*   @<tool>:dutmeas:<key>:<value>                                         *)
(*   @<tool>:psuctl:<voltage>:<delay_ms>[:<supply>[:<channel>]]            *)
(*   @<tool>:psumeas:<key>:<delay_ms>[:<supply>[:<channel>]]               *)
(* or lacks a field, or is a psuctl line whose voltage is no number.       *)
MalformedLine(line) ==
    \/ Len(line) < 4
    \/ line[1] # Tool
    \/ line[2] \notin {"dutmeas"} \cup PsuKinds
    \/ /\ line[2] \in PsuKinds
       /\ \/ Len(line) > 6
          \/ ~AllDigits(line[4])
          \/ line[2] = "psuctl" /\ line[3] \notin {"0", "1", "2", "5", "9"}

(* The line names a supply, or a channel of it, that the configuration the *)
(* run was started with does not have.                                     *)
UnknownScope(line) ==
    /\ ~MalformedLine(line)
    /\ line[2] \in PsuKinds
    /\ Len(line) >= 5
    /\ \/ line[5] \notin DOMAIN InitConfigs
       \/ /\ Len(line) = 6
          /\ \/ ~AllDigits(line[6])
             \/ DigitPrefix(line[6])[1] \notin DOMAIN InitConfigs[line[5]].channels

(* A field of the line is a number followed by something else, or a        *)
(* channel that is no number at all.                                       *)
LooseField(line) ==
    /\ Len(line) >= 4
    /\ line[2] \in PsuKinds
    /\ \/ DigitPrefix(line[4]) # None /\ ~AllDigits(line[4])
       \/ Len(line) = 6 /\ ~AllDigits(line[6])

(* The processor takes line i off the queue to process it.                 *)
Pops(i) ==
    /\ pcP \in {"get", "pop"}
    /\ line_queue # <<>>
    /\ QueueFront(line_queue) = i
    /\ line_queue' = QueueRest(line_queue)

(* Line i is dropped with an error and nothing else: no record, no         *)
(* instrument command, no change of the termination signal or of the       *)
(* configuration; the line is acknowledged and the loop goes on.           *)
Dropped(i) ==
    /\ Len(errs') = Len(errs) + 1
    /\ errs'[Len(errs')].line = i
    /\ SubSeq(errs', 1, Len(errs)) = errs
    /\ sink' = sink
    /\ cmds' = cmds
    /\ end_event' = end_event
    /\ psu_configs' = psu_configs
    /\ exc' = exc
    /\ unfinished' = unfinished - 1
    /\ pcP' = "loop"

(* C10: every line that is malformed or names an unknown supply or channel *)
(* is dropped with an error, without a record, an instrument command or    *)
(* the termination signal, and the processor goes on with the next line.   *)
C10_BadLineDropped ==
    [][\A i \in 1..Len(pushed) :
          (Pops(i) /\ (MalformedLine(pushed[i]) \/ UnknownScope(pushed[i])))
              => Dropped(i)]_vars

(* The same for the lines of which every numeric field is a plain number.  *)
C10_StrictBadLineDropped ==
    [][\A i \in 1..Len(pushed) :
          (/\ Pops(i)
           /\ MalformedLine(pushed[i]) \/ UnknownScope(pushed[i])
           /\ ~LooseField(pushed[i]))
              => Dropped(i)]_vars

(* A dropped line leaves nothing behind, and the valid line after it is    *)
(* processed: line 1 names an unknown channel, line 2 is recorded.         *)
C10_DroppedThenProcessed ==
    /\ Len(pushed) = 2
    /\ pushed[1] = <<Tool, "psumeas", "idle", "0", "vdd", "9">>
    /\ pushed[2] = <<Tool, "dutmeas", "cycles", "42">>
    /\ errs = <<Err(1, "unknown channel")>>
    /\ cmds = <<>>
    /\ \E k \in 1..Len(sink) : sink[k].t = "rec" /\ sink[k].line = 2

----------------------------------------------------------------------------
(* Lines lost.                                                             *)

(* The processor has taken line i off the queue to process it.             *)
Started(i) == \E p \in 1..Len(trace) : trace[p] = <<"start", i>>

(* The processing of line i has ended and the line is acknowledged.        *)
Ended(i) == \E p \in 1..Len(trace) : trace[p] = <<"end", i>>

(* An error naming line i has been printed.                                *)
Reported(i) == \E k \in 1..Len(errs) : errs[k].line = i

(* main has returned and the processor has ended.                          *)
RunEnded == pcMain = "done" /\ pcP = "done"

(* C11 as claimed: when the run has ended, every line the reader pushed    *)
(* has been taken up by the processor or reported as dropped, however the  *)
(* processor ended.                                                        *)
C11_NoLineLost ==
    RunEnded => \A i \in 1..Len(pushed) : Started(i) \/ Reported(i)

----------------------------------------------------------------------------
(* Return of the coordinator.                                              *)

(* C12: the coordinator leaves its poll loop only with end_event set and   *)
(* then has cancelled the reader; it returns, with the processor not       *)
(* finished, only when no pushed line is queued or unacknowledged.         *)
C12_ReturnsDrained ==
    [][ /\ (pcC' \in {"join", "done"}) => (end_event' /\ pcR' = "cancelled")
        /\ (pcC # "done" /\ pcC' = "done" /\ pcP' # "done")
              => (unfinished' = 0 /\ line_queue' = <<>> /\ cur'.idx = 0) ]_vars

(* The coordinator has returned before the processor finished, after both  *)
(* pushed lines were acknowledged.                                         *)
C12_Witness ==
    /\ pcC = "done"
    /\ pcR = "cancelled"
    /\ pcP \notin {"done", "closing", "init", "open"}
    /\ Len(pushed) = 2
    /\ Ended(1) /\ Ended(2)

----------------------------------------------------------------------------
(* Framing of the measurement sink.                                        *)

(* C13: the sink starts with the opening bracket, the records follow it in *)
(* the order they were produced, and the closing bracket is there exactly  *)
(* when the processor has ended, once and as the last line, however the    *)
(* processor ended.                                                        *)
C13_Framing ==
    /\ pcP \notin {"none", "init"} => (sink # <<>> /\ sink[1].t = "[")
    /\ \A k \in 2..Len(sink) :
          \/ sink[k].t = "rec"
          \/ sink[k].t = "]" /\ k = Len(sink)
    /\ \A j, k \in 2..Len(sink) :
          (j < k /\ sink[j].t = "rec" /\ sink[k].t = "rec") => sink[j].line < sink[k].line
    /\ pcP = "done" <=> (sink # <<>> /\ sink[Len(sink)].t = "]")

(* The processor has ended on an error after it wrote a record.            *)
C13_Witness ==
    /\ pcP = "done"
    /\ exc \in {Some("VisaIOError"), Some("SyntaxError"), Some("AssertionError")}
    /\ Len(sink) = 3
    /\ sink[2].t = "rec"

(* The processor has ended by cancellation.                                *)
C13_Cancelled ==
    /\ pcP = "done"
    /\ exc = Some("CancelledError")
    /\ sink[Len(sink)].t = "]"

----------------------------------------------------------------------------
(* dutmeas lines.                                                          *)

(* The value the record of a dutmeas line is to carry: the literal the     *)
(* payload denotes, or the payload itself.                                 *)
LiteralPayloads == {"42"}
RecordValue(payload) ==
    IF payload \in LiteralPayloads THEN <<"int", payload>> ELSE <<"str", payload>>

(* The processor turns the dutmeas line i it pops into the record          *)
(* key -> value and goes on to write it; it does not fail.                 *)
DutmeasRecorded(i) ==
    LET groups == DutmeasMatch(pushed[i])[1]
    IN  /\ exc' = None
        /\ pcP' = "write"
        /\ cur' = [idx |-> i,
                   rec |-> [t |-> "rec", line |-> i, key |-> groups[1],
                            val |-> RecordValue(groups[2])]]

(* C14 as claimed: every dutmeas line that matches the pattern yields its  *)
(* record, with the literal value of the payload or else the payload as a  *)
(* string; no payload makes the processor fail.                            *)
C14_EveryPayloadRecorded ==
    [][\A i \in 1..Len(pushed) :
          (Pops(i) /\ DutmeasMatch(pushed[i]) # None) => DutmeasRecorded(i)]_vars

(* The same for the payloads that are a literal or a single name.          *)
C14_NamePayloadRecorded ==
    [][\A i \in 1..Len(pushed) :
          (/\ Pops(i)
           /\ DutmeasMatch(pushed[i]) # None
           /\ DutmeasMatch(pushed[i])[1][2] \in {"42", "abc"})
              => DutmeasRecorded(i)]_vars

----------------------------------------------------------------------------
(* Voltage bounds.                                                         *)

(* C15: every voltage-apply command a step sends to an instrument, in the  *)
(* power cycle of main or for a psuctl line, carries a voltage within the  *)
(* minimum and maximum configured for the channel it targets.              *)
C15_AppliedInBounds ==
    [][\A k \in (Len(cmds) + 1)..Len(cmds') :
          cmds'[k].op = "APPLY" =>
              LET chan == psu_configs[cmds'[k].instr].channels[cmds'[k].ch]
              IN  chan.volmin <= cmds'[k].arg /\ cmds'[k].arg <= chan.volmax]_vars

(* The power cycle has applied the configured voltages and a psuctl line   *)
(* has then applied the voltage it set.                                    *)
C15_Witness ==
    /\ \E k \in 1..Len(cmds) : cmds[k].op = "APPLY" /\ cmds[k].line = 0
    /\ \E k \in 1..Len(cmds) :
          /\ cmds[k].op = "APPLY" /\ cmds[k].line = 1
          /\ cmds[k].arg = 2
          /\ pushed[1] = <<Tool, "psuctl", "2", "0", "vdd", "1">>

(* A psuctl line asked for a voltage above the maximum; nothing was sent   *)
(* for it and the processor has stopped on the failed assertion.           *)
C15_Refused ==
    /\ exc = Some("AssertionError")
    /\ pushed[1] = <<Tool, "psuctl", "9", "0", "vdd", "1">>
    /\ \A k \in 1..Len(cmds) : cmds[k].line = 0

----------------------------------------------------------------------------
(* Gang-aware power switching.                                             *)

(* The output-state commands sent, in order.                               *)
OutputCmds == SelectSeq(cmds, LAMBDA c : c.op = "OUTPUT")

(* The number of channels of the configuration.                            *)
RECURSIVE ChannelCount(_)
ChannelCount(order) ==
    IF order = <<>> THEN 0
    ELSE Cardinality(DOMAIN psu_configs[Head(order)].channels) + ChannelCount(Tail(order))

(* The first commands sent are one output-disable per supply.              *)
DisabledEach ==
    /\ Len(OutputCmds) >= Len(Supplies(psu_configs))
    /\ \A k \in 1..Len(Supplies(psu_configs)) :
          /\ OutputCmds[k].instr = Supplies(psu_configs)[k]
          /\ OutputCmds[k].arg = 0
          /\ cmds[k] = OutputCmds[k]

(* C16: with ganged, power_off sends one output-disable, to the first      *)
(* supply, and a completed power_reset_cycle sends besides it one          *)
(* output-enable, to the first supply, and no other output-state command;  *)
(* without ganged, power_off sends one output-disable per supply and a     *)
(* completed power_reset_cycle sends besides them one output-state command *)
(* per channel, carrying the state configured for it, and no shared enable.*)
C16_GangAware ==
    LET order == Supplies(psu_configs)
        out   == OutputCmds
    IN  /\ (pcMain = "off" /\ ganged) =>
              /\ cmds = out /\ Len(out) = 1
              /\ out[1].instr = order[1] /\ out[1].arg = 0
        /\ (pcMain = "off" /\ ~ganged) =>
              cmds = out /\ Len(out) = Len(order) /\ DisabledEach
        /\ (pcMain = "cycled" /\ ganged) =>
              /\ Len(out) = 2
              /\ out[1] = cmds[1] /\ out[1].instr = order[1] /\ out[1].arg = 0
              /\ out[2].instr = order[1] /\ out[2].arg = 1
              /\ \A k \in 1..Len(cmds) :
                    cmds[k].op \in {"APPLY", "SENSE", "PAIR", "RST"}
                        => (\E j \in (k + 1)..Len(cmds) : cmds[j] = out[2])
        /\ (pcMain = "cycled" /\ ~ganged) =>
              /\ DisabledEach
              /\ Len(out) = Len(order) + ChannelCount(order)
              /\ \A s \in DOMAIN psu_configs : \A c \in DOMAIN psu_configs[s].channels :
                    \E k \in (Len(order) + 1)..Len(out) :
                        /\ out[k].instr = s /\ out[k].ch = c
                        /\ out[k].arg = IF psu_configs[s].channels[c].active THEN 1 ELSE 0

(* A ganged power cycle of two supplies has completed.                     *)
C16_Witness ==
    /\ pcMain = "cycled"
    /\ ganged
    /\ Len(Supplies(psu_configs)) = 2
    /\ Len(OutputCmds) = 2

(* A power cycle without ganging has completed on two supplies, one with a *)
(* channel configured inactive.                                            *)
C16_NotGanged ==
    /\ pcMain = "cycled"
    /\ ~ganged
    /\ Len(Supplies(psu_configs)) = 2
    /\ \E k \in 1..Len(OutputCmds) : OutputCmds[k].ch = 2 /\ OutputCmds[k].arg = 0

----------------------------------------------------------------------------
(* Leak phase.                                                             *)

(* The step is the leak phase of an action leak.                           *)
LeakStep == pcMain = "leak" /\ pcMain' = "launch" /\ args.action = "leak"

(* The commands a step appends.                                            *)
Appended == SubSeq(cmds', Len(cmds) + 1, Len(cmds'))

(* C17: the leak phase switches off only the sources flagged leakoff, so   *)
(* that every other source keeps the output state it had; the measurement  *)
(* of the phase follows the switching off and the settle delay.            *)
C17_OnlyLeakoffDisabled ==
    [][LeakStep =>
          \A k \in 1..Len(Appended) :
              Appended[k].op = "SRC_OUTPUT"
                  => siggen_cfgs[Appended[k].instr].sources[Appended[k].ch].leakoff]_vars

(* The order of the leak phase: source commands, then the settle delay,    *)
(* then the measurement queries.                                           *)
C17_MeasuredAfterSettle ==
    [][LeakStep =>
          \E d \in 1..Len(Appended) :
              /\ Appended[d] = Sleep(args.tlwait)[1]
              /\ \A k \in 1..(d - 1) : Appended[k].op = "SRC_OUTPUT"
              /\ \A k \in (d + 1)..Len(Appended) :
                    Appended[k].op \in {"MEAS_CURR", "MEAS_VOLT"}]_vars

----------------------------------------------------------------------------
(* Tasks that end unasked.                                                 *)

(* C18: once the serial link has closed with end_event not set, end_event  *)
(* is eventually set.                                                      *)
C18_EofSetsSignal == (pcR = "eof" /\ ~end_event) ~> end_event

(* C18, the general part: a processor that has ended on an exception other *)
(* than its cancellation has ended with end_event set.                     *)
C18_NoSilentEnd ==
    (pcP = "done" /\ exc \notin {None, Some("CancelledError")}) => end_event

----------------------------------------------------------------------------
(* Acknowledgement of dequeued lines.                                      *)

(* The lines the processor has dequeued and not yet done with.             *)
InProcessing == IF cur.idx # 0 THEN 1 ELSE 0

(* C19: in every state the count of unacknowledged lines is the number of  *)
(* lines queued plus the number in processing, and it is zero when the     *)
(* processor waits on an empty queue.                                      *)
C19_AckedOnce ==
    /\ unfinished = Len(line_queue) + InProcessing
    /\ (pcP = "get" /\ line_queue = <<>>) => unfinished = 0

(* The count is right as long as no line raised an exception.              *)
C19_AckedUnlessRaised ==
    (exc \in {None, Some("CancelledError")}) => C19_AckedOnce

----------------------------------------------------------------------------
(* Scope resolution and the run's configuration.                           *)

(* A channel with its voltage left out of the comparison.                  *)
ButVol(chan) == [chan EXCEPT !.vol = 0]

(* C20: no step of the processor takes a channel away from a supply of the *)
(* run's configuration or changes anything of a channel but its voltage.   *)
C20_ConfigKept ==
    [][\A s \in DOMAIN psu_configs :
          /\ DOMAIN psu_configs'[s].channels = DOMAIN psu_configs[s].channels
          /\ \A c \in DOMAIN psu_configs[s].channels :
                ButVol(psu_configs'[s].channels[c]) = ButVol(psu_configs[s].channels[c])]_vars

(* C20, the consequence: no line that names a supply and a channel the     *)
(* configuration was loaded with is reported as naming an unknown channel. *)
C20_LaterChannelResolved ==
    \A k \in 1..Len(errs) :
        errs[k].kind = "unknown channel" =>
            LET line == pushed[errs[k].line]
            IN  ~(/\ Len(line) = 6
                  /\ line[5] \in DOMAIN InitConfigs
                  /\ line[6] \in {"1", "2"}
                  /\ (IF line[6] = "1" THEN 1 ELSE 2) \in DOMAIN InitConfigs[line[5]].channels)

----------------------------------------------------------------------------
(* Scope resolution.                                                       *)

(* The step resolves the scope of line i, a well-formed psuctl or psumeas  *)
(* line, whose groups are g.                                               *)
Resolves(i, g) ==
    /\ Pops(i)
    /\ \E name \in {"ctl", "meas"} :
          /\ PsuMatch(name, pushed[i]) = Some(g)
          /\ name = "ctl" => try_float(g.g0) # None

(* Line i is taken into processing with the supplies S as its scope.       *)
Scoped(i, S) == pcP' = "delay" /\ cur'.idx = i /\ cur'.loc = S /\ errs' = errs

(* Line i is discarded with the error `kind`.                              *)
Discarded(i, kind) == pcP' = "loop" /\ errs' = Append(errs, Err(i, kind)) /\ cur' = cur

C21_WholeScope ==
    /\ pcP = "delay"
    /\ cur.groups.g2 = None
    /\ cur.loc = {"vdd", "vio"}

----------------------------------------------------------------------------
(* Voltage applied by a psuctl line.                                       *)

(* The step applies the channel configurations of the psuctl line in hand. *)
Applies == pcP = "delay" /\ cur.name = "ctl" /\ Len(cmds') > Len(cmds)

(* C22: every voltage a psuctl line applies is the voltage the line gives, *)
(* whether the line names a supply and a channel, a supply, or neither.    *)
C22_LineVoltageApplied ==
    [][Applies =>
          \A k \in 1..Len(Appended) :
              Appended[k].op = "APPLY" => Appended[k].arg = try_float(cur.groups.g0)[1]]_vars

(* The same for the lines that name a supply and a channel.                *)
C22_ChannelVoltageApplied ==
    [][(Applies /\ cur.groups.g3 # None) =>
          \A k \in 1..Len(Appended) :
              Appended[k].op = "APPLY" => Appended[k].arg = try_float(cur.groups.g0)[1]]_vars

----------------------------------------------------------------------------
(* Frame of a psuctl line.                                                 *)

(* C23: the commands a psuctl line sends are none of them an output-state  *)
(* command, and all go to supplies of the line's scope.                    *)
C23_LevelsOnlyInScope ==
    [][Applies =>
          \A k \in 1..Len(Appended) :
              /\ Appended[k].op \in {"APPLY", "SENSE"}
              /\ Appended[k].instr \in cur.loc
              /\ Appended[k].line = cur.idx]_vars

(* A psuctl line naming vio has been applied while vdd is configured too:  *)
(* the commands sent are those for vio.                                    *)
C23_Witness ==
    /\ pushed # <<>>
    /\ pushed[1] = <<Tool, "psuctl", "1", "5", "vio">>
    /\ Ended(1)
    /\ "vdd" \in DOMAIN psu_configs
    /\ cmds # <<>>
    /\ \A k \in 1..Len(cmds) : cmds[k].line = 1 => cmds[k].instr = "vio"

----------------------------------------------------------------------------
(* Delay and scope resolution.                                             *)

(* The step prints an unknown-supply or unknown-channel error.             *)
ReportsUnknown ==
    /\ Len(errs') = Len(errs) + 1
    /\ errs'[Len(errs')].kind \in {"unknown supply", "unknown channel"}

(* C24: an unknown supply or channel is reported, and the configuration is *)
(* touched, only by a step taken from the sleep of the line in hand, that  *)
(* is once the line's delay has elapsed.                                   *)
C24_DelayBeforeScope ==
    [][(ReportsUnknown \/ psu_configs' # psu_configs) => (pcP = "delay" /\ cur.idx # 0)]_vars

----------------------------------------------------------------------------
(* Delay and instrument access.                                            *)

(* C25: a command or read that belongs to a line is sent by a step taken   *)
(* after the sleep of that very line, and the sleep of a line starts only  *)
(* when every line before it has been processed to its end.                *)
C25_DelayBeforeAccess ==
    [][/\ \A k \in 1..Len(Appended) :
             Appended[k].line # 0 =>
                 /\ pcP \in {"delay", "meas"}
                 /\ cur.idx = Appended[k].line
       /\ (pcP # "delay" /\ pcP' = "delay") =>
             \A j \in 1..(cur'.idx - 1) : Ended(j)]_vars

(* Two lines with instrument access have been processed, the commands of   *)
(* the first all before those of the second.                               *)
C25_Witness ==
    /\ Ended(1) /\ Ended(2)
    /\ \E k \in 1..Len(cmds) : cmds[k].line = 1
    /\ \E k \in 1..Len(cmds) : cmds[k].line = 2
    /\ \A j, k \in 1..Len(cmds) : (cmds[j].line = 1 /\ cmds[k].line = 2) => j < k

----------------------------------------------------------------------------
(* Instrument failure while a line is processed.                           *)

(* The step is the failure at the instrument of the line in hand.          *)
InstrumentFails ==
    /\ pcP \in {"delay", "meas"}
    /\ exc = None
    /\ exc' \in {Some("VisaIOError"), Some("AssertionError")}

(* C26: an instrument failure fails the line in hand only: end_event is    *)
(* left as it is, the line is acknowledged and the processor goes on with  *)
(* its loop.                                                               *)
C26_FailsOnlyLine ==
    [][InstrumentFails =>
          /\ end_event' = end_event
          /\ unfinished' = unfinished - 1
          /\ pcP' = "loop"]_vars

(* The part about the termination signal alone.                            *)
C26_SignalNotSet == [][InstrumentFails => end_event' = end_event]_vars

----------------------------------------------------------------------------
(* Result of a measurement.                                                *)

(* C27: the result of meas_vol_cur over a scope holds exactly the channels *)
(* of the scope that are flagged measure (all of them with measure_all);   *)
(* each has a current reading and, exactly when flagged measure_vol, a     *)
(* voltage reading; a supply none of whose channels is measured has no     *)
(* entry.                                                                  *)
C27_ExactlyFlagged ==
    pcMain \in {"measured", "written"} =>
        LET ret == cur.ret
        IN  /\ \A s \in DOMAIN ret :
                  /\ s \in cur.loc
                  /\ DOMAIN ret[s] # {}
                  /\ DOMAIN ret[s] \subseteq DOMAIN psu_configs[s].channels
            /\ \A s \in cur.loc : \A c \in DOMAIN psu_configs[s].channels :
                  LET ccfg     == psu_configs[s].channels[c]
                      measured == s \in DOMAIN ret /\ c \in DOMAIN ret[s]
                  IN  /\ measured <=> (ccfg.measure \/ cur.all)
                      /\ measured =>
                            /\ "cur" \in ret[s][c]
                            /\ "vol" \in ret[s][c] <=> ccfg.measure_vol
                            /\ ret[s][c] \subseteq {"cur", "vol"}

(* A scope of two supplies measured without measure_all: one supply has no *)
(* flagged channel and no entry, the other has an entry for its flagged    *)
(* channel only.                                                           *)
C27_Witness ==
    /\ pcMain = "written"
    /\ ~cur.all
    /\ cur.loc = {"vdd", "vio"}
    /\ DOMAIN cur.ret = {"vdd"}
    /\ DOMAIN psu_configs["vdd"].channels = {1, 2}
    /\ DOMAIN cur.ret["vdd"] = {1}
    /\ sink[1].val = cur.ret

(* With measure_all the unflagged channel is measured, with its voltage.   *)
C27_MeasureAll ==
    /\ pcMain = "measured"
    /\ cur.all
    /\ \E s \in DOMAIN cur.ret :
          /\ ~psu_configs[s].channels[1].measure
          /\ cur.ret[s][1] = {"cur", "vol"}

----------------------------------------------------------------------------
(* Order of a power cycle.                                                 *)

(* The number of output-disables power_off sends.                          *)
OffCount == IF ganged THEN 1 ELSE Len(Supplies(psu_configs))

(* Position of a supply in the order of the configuration.                 *)
SupplyIndex(s) == CHOOSE k \in 1..Len(SupplyOrder) : SupplyOrder[k] = s

(* Rank of a configuration command within the block of its supply.         *)
ConfigRank(op) == IF op = "RST" THEN 0 ELSE IF op = "PAIR" THEN 1 ELSE 2

GpioOps == {"PIN_FUNCTION", "PIN_POLARITY", "DIGITAL_DATA", "SLEEP"}

(* The positions of the configuration commands, of the shared enable and   *)
(* of the commands of the reset pulse.                                     *)
ConfigAt == {k \in (OffCount + 1)..Len(cmds) :
                cmds[k].op \in {"RST", "PAIR", "APPLY", "SENSE"}
                \/ (cmds[k].op = "OUTPUT" /\ ~ganged)}
EnableAt == {k \in (OffCount + 1)..Len(cmds) : cmds[k].op = "OUTPUT" /\ ganged}
GpioAt   == {k \in 1..Len(cmds) : cmds[k].op \in GpioOps}
HoldAt   == {k \in 1..Len(cmds) : cmds[k].op = "SLEEP"}

----------------------------------------------------------------------------
(* The reset pulse.                                                        *)

(* The data words written to supply s, in order.                           *)
DataWords(s) ==
    LET w == SelectSeq(cmds, LAMBDA c : c.instr = s /\ c.op = "DIGITAL_DATA")
    IN  [k \in 1..Len(w) |-> w[k].arg]

(* The pins a data word of the digital port drives high: DIGITAL:OUTPUT:   *)
(* DATA takes the port's word, pin p being bit p - 1 of it.                *)
WordPins(w) == {p \in 1..3 : (w \div (2 ^ (p - 1))) % 2 = 1}

(* The levels a supply's reset pin is driven through by a reset.           *)
Pulse == IF cur.initial_low THEN <<FALSE, TRUE>> ELSE <<TRUE, FALSE, TRUE>>

(* The words reset writes to a supply with a reset GPIO are high, low,     *)
(* high (low, high with initial_low), every low before the hold and the    *)
(* last high after it; a supply without reset GPIO is sent nothing.        *)
C29_PulseOrder ==
    pcMain = "pulsed" =>
        /\ Cardinality(HoldAt) = 1
        /\ \A s \in DOMAIN psu_configs :
              IF psu_configs[s].reset_gpio = 0
              THEN \A k \in 1..Len(cmds) : cmds[k].instr # s
              ELSE /\ DataWords(s) = [k \in 1..Len(Pulse) |-> IF Pulse[k] THEN 1 ELSE 0]
                   /\ \A k \in 1..Len(cmds), h \in HoldAt :
                         (cmds[k].instr = s /\ cmds[k].op = "DIGITAL_DATA")
                             => (cmds[k].arg = 0 => k < h)
                                /\ (k > h <=> (cmds[k].arg = 1 /\ \A j \in (k + 1)..Len(cmds) :
                                                  ~(cmds[j].instr = s /\ cmds[j].op = "DIGITAL_DATA")))

----------------------------------------------------------------------------
(* The plain reset of main.                                                *)

(* The step is main's supply management ending in a plain reset: action    *)
(* reset, or cycle/run/leak without --noreset.                             *)
PlainResetStep ==
    /\ pcMain = "supply"
    /\ pcMain' = "leak"
    /\ \/ args.action = "reset"
       \/ (args.action \in {"cycle", "run", "leak"} /\ ~args.noreset)

(* The commands of the plain reset: those the step sends after its last    *)
(* command that is neither a GPIO write nor a sleep, the closing wait of   *)
(* --trafter left out.                                                     *)
PlainReset ==
    LET others == {k \in 1..Len(Appended) : Appended[k].op \notin GpioOps}
        start  == IF others = {} THEN 1
                  ELSE 1 + CHOOSE k \in others : \A j \in others : j <= k
    IN  SubSeq(Appended, start, Len(Appended) - 1)

(* C30: the plain reset of main drives the reset pins high first and holds *)
(* them low for the pulse width given with --trst.                         *)
C30_PlainResetAsConfigured ==
    [][PlainResetStep =>
          LET data == SelectSeq(PlainReset, LAMBDA c : c.op = "DIGITAL_DATA")
              hold == SelectSeq(PlainReset, LAMBDA c : c.op = "SLEEP")
          IN  /\ Len(hold) = 1
              /\ hold[1].arg = args.trst
              /\ data # <<>> => data[1].arg = 1]_vars

(* The plain reset is a reset with one hold, of whatever width.            *)
C30_PlainResetPulses ==
    [][PlainResetStep =>
          Len(SelectSeq(PlainReset, LAMBDA c : c.op = "SLEEP")) = 1]_vars

----------------------------------------------------------------------------
(* The ganged flag main passes on.                                         *)

(* The step is main's supply management, completed, for a configuration    *)
(* that says not ganged and has a supply.                                  *)
NotGangedStep ==
    /\ pcMain = "supply"
    /\ pcMain' = "leak"
    /\ ~instr_cfg.ganged
    /\ DOMAIN psu_configs # {}

(* C31: for a configuration that is not ganged, the power-off of action    *)
(* poweroff disables the output of every supply, and the power cycle of    *)
(* cycle, run and leak disables every supply and sends every channel its   *)
(* configured output state.                                                *)
C31_FlagOfConfiguration ==
    [][NotGangedStep =>
          /\ (args.action = "poweroff" \/
              (args.action \in {"cycle", "run", "leak"} /\ ~args.noreconf)) =>
                \A s \in DOMAIN psu_configs :
                    \E k \in 1..Len(Appended) : Appended[k] = set_pch_active(s, FALSE, 0)
          /\ (args.action \in {"cycle", "run", "leak"} /\ ~args.noreconf) =>
                \A s \in DOMAIN psu_configs : \A c \in DOMAIN psu_configs[s].channels :
                    \E k \in 1..Len(Appended) :
                        /\ Appended[k] = set_pch_active(s, psu_configs[s].channels[c].active, c)
                        /\ \E j \in 1..(k - 1) :
                              Appended[j].op = "APPLY" /\ Appended[j].instr = s]_vars

(* main passes a true flag exactly when there is a supply.                 *)
C31_FlagIsSupplies == ganged <=> DOMAIN psu_configs # {}

----------------------------------------------------------------------------
(* Ownership of the supplies' configuration between the pipelines.         *)

(* The executor of the other chip's processor is inside meas_vol_cur       *)
(* (lines 87-88), iterating over the configuration of supply `s`.          *)
PeerReads(s) == peer.pcP = "meas" /\ s \in peer.cur.loc

(* The other chip's processor sleeps in parse_psuline (line 129) holding   *)
(* the configuration of supply `s`, which it applies or reads next.        *)
PeerHolds(s) == peer.pcP = "delay" /\ s \in peer.cur.loc

(* C32: no task modifies the configuration of a supply while the off-loop  *)
(* instrument read started by a task of another pipeline reads that        *)
(* supply's configuration.                                                 *)
C32_NotModifiedWhileRead ==
    [][\A s \in DOMAIN psu_configs :
          PeerReads(s) => psu_configs'[s] = psu_configs[s]]_vars

(* Nor while a task of another pipeline holds it across its delay.         *)
C32_NotModifiedWhileHeld ==
    [][\A s \in DOMAIN psu_configs :
          PeerHolds(s) => psu_configs'[s] = psu_configs[s]]_vars

====
